---- MODULE Spec2Model ----
(***************************************************************************)
(* AgentService (services/agent_service.py): the multi-persona stress-test *)
(* workflow, as a state machine over the asyncio event loop.  One action   *)
(* is one step of a coroutine: from the moment the event loop resumes it   *)
(* (a gateway call returned or raised) to its next suspension (the next    *)
(* gateway call is in flight) or its end.                                  *)
(*                                                                         *)
(* The Backboard gateway (BackboardClient) is the environment: every call  *)
(* is logged when it is issued and when it ends, and its answer is chosen  *)
(* nondeterministically among the shapes the code distinguishes.           *)
(***************************************************************************)
EXTENDS Integers, Sequences, FiniteSets, Bags, TLC

VARIABLES
  assistant_id,   \* AgentService.assistant_id, the cached assistant identity
  run,            \* run[r]: the frame of the r-th run_stress_test invocation
  task,           \* task[r][i]: the i-th _run_isolated_critic task of run r
  calls,          \* the gateway's log: a bag of [call, status]
  warnings,       \* "Warning: Failed to delete temporary thread" lines printed
  faults,         \* abnormal gateway answers so far
  offered,        \* offered[r]: the arguments the caller may invoke run r with
  nm,             \* new-main.py, the single-file service: its global and its request
  ask,            \* ask[q]: the frame of the q-th ask_follow_up invocation
  calc            \* a call of one of the local helpers (normalize_text, ...)

vars ==
  <<assistant_id, run, task, calls, warnings, faults, offered, nm, ask, calc>>

----------------------------------------------------------------------------
(* Bounds of the model                                                     *)

NumRuns == 2      \* run_stress_test invocations
MaxFaults == 2    \* abnormal gateway answers in one behaviour
MaxSelLen == 2    \* length of a caller-supplied selected_critics list

Runs == 1..NumRuns

NumAsks == 2      \* ask_follow_up invocations

Asks == 1..NumAsks

----------------------------------------------------------------------------
(* Python values                                                           *)

\* Python's None; str(None) is the four-letter string "None".
NoneVal == "<None>"

Str(x) == IF x = NoneVal THEN "None" ELSE x

Truthy(x) == x # NoneVal /\ x # ""

Range(s) == {s[k] : k \in 1..Len(s)}

SeqFilter(s, S) ==
  LET F[k \in 0..Len(s)] ==
        IF k = 0 THEN <<>>
        ELSE IF s[k] \in S THEN Append(F[k-1], s[k]) ELSE F[k-1]
  IN F[Len(s)]

----------------------------------------------------------------------------
(* Configuration                                                           *)

available_critics == <<"vc", "engineer", "ethicist", "user", "competitor">>

\* self.MODELS: one (llm_provider, model_name) pair per key; the environment
\* may override each, so the pairs are kept distinct here.
MODELS ==
  [k \in Range(available_critics) \cup {"main"} |->
     [llm_provider |-> "provider_" \o k, model_name |-> "model_" \o k]]

\* The names a caller may put in selected_critics: two personas and a name
\* that is not a persona.
SelNames == {"vc", "engineer", "nobody"}

SeqsUpTo(S, n) == UNION {[1..k -> S] : k \in 0..n}

\* An Optional[List[str]] argument: None, or a list.
NoList == [none |-> TRUE, list |-> <<>>]

SomeList(s) == [none |-> FALSE, list |-> s]

\* The selections that name at least one persona, and those that name none
\* (None, the empty list, lists of unknown names).
NamedSelections ==
  {SomeList(s) : s \in {q \in SeqsUpTo(SelNames, MaxSelLen) :
                          Range(q) \cap Range(available_critics) # {}}}

UnnamedSelections ==
  {NoList} \cup
  {SomeList(s) : s \in {q \in SeqsUpTo(SelNames, MaxSelLen) :
                          Range(q) \cap Range(available_critics) = {}}}

\* The arguments of one invocation: thread_id (None, or a context the caller
\* already holds) and selected_critics.
Args(th, sel) == [thread_id |-> th, selected_critics |-> sel]

\* One invocation, made with any named selection, with or without a context.
SingleArgs(r) ==
  IF r = 1 THEN {Args(th, sel) : th \in {NoneVal, "ext"}, sel \in NamedSelections}
  ELSE {}

\* Invocations made side by side on the one service instance: the first
\* selects two personas, the others one.
ConcurrentArgs(r) ==
  {Args(NoneVal, SomeList(IF r = 1 THEN <<"vc", "engineer">> ELSE <<"vc">>))}

\* As SelectCritics, without the fallback of lines 237-238: a selection of
\* unknown names only runs no persona.
SelectCritics_nofallback(selected_critics) ==
  LET s1 == IF selected_critics.none \/ selected_critics.list = <<>>
            THEN available_critics ELSE selected_critics.list
  IN SeqFilter(s1, Range(available_critics))

\* run_stress_test, lines 230-238: the personas that run.
SelectCritics(selected_critics) ==
  LET s1 == IF selected_critics.none \/ selected_critics.list = <<>>
            THEN available_critics ELSE selected_critics.list
      s2 == SeqFilter(s1, Range(available_critics))
  IN IF s2 = <<>> THEN available_critics ELSE s2

\* Critic task slots of one run: as many as the longest list that can run.
MaxTasks ==
  IF MaxSelLen > Len(available_critics) THEN MaxSelLen ELSE Len(available_critics)

----------------------------------------------------------------------------
(* Gateway answers                                                         *)

\* What a BackboardClient call gives back: an SDK object with attributes, a
\* dict, a plain string, or an exception.
\* `sent` tells whether the request reached the gateway.
Obj(fields) == [kind |-> "obj", fields |-> fields, exc |-> "-", sent |-> TRUE]

Dict(fields) == [kind |-> "dict", fields |-> fields, exc |-> "-", sent |-> TRUE]

PlainStr(v) ==
  [kind |-> "str", fields |-> [k \in {"value"} |-> v], exc |-> "-", sent |-> TRUE]

NoFields == [k \in {} |-> ""]

\* The client raised e after it had sent the request.
Raise(e) == [kind |-> "raise", fields |-> NoFields, exc |-> e, sent |-> TRUE]

\* Python rejected the call's arguments (a TypeError of the signature):
\* nothing was sent.
Rejected == [kind |-> "raise", fields |-> NoFields, exc |-> "TypeError", sent |-> FALSE]

\* getattr(resp, name, None)
GetAttr(resp, name) ==
  IF resp.kind = "obj" /\ name \in DOMAIN resp.fields THEN resp.fields[name]
  ELSE NoneVal

\* resp.get(name) if isinstance(resp, dict) else None
DictGet(resp, name) ==
  IF resp.kind = "dict" /\ name \in DOMAIN resp.fields THEN resp.fields[name]
  ELSE NoneVal

\* Python's `a or b`
Or(a, b) == IF Truthy(a) THEN a ELSE b

\* The answers to a call that creates `id` under the field name `alt`
\* ("assistant_id" or "thread_id") besides "id".
IdAnswers(id, alt) ==
  { Obj([k \in {"id"} |-> id]), Obj([k \in {alt} |-> id]),
    Dict([k \in {"id"} |-> id]), Dict([k \in {alt} |-> id]),
    PlainStr(id), Obj(NoFields), Raise("Error") }

\* The answers to add_message with reply text `txt`.
TextAnswers(txt) ==
  { Obj([k \in {"content"} |-> txt]), Obj([k \in {"message"} |-> txt]),
    Dict([k \in {"content"} |-> txt]), Dict([k \in {"message"} |-> txt]),
    Obj(NoFields), Rejected, Raise("TypeError"), Raise("Error") }

\* The answers to delete_thread.
DeleteAnswers == { Dict([k \in {"deleted"} |-> "true"]), Raise("Error") }

\* An answer is abnormal when it raises, carries no field, or is a bare string.
Abnormal(resp) == resp.kind \in {"raise", "str"} \/ DOMAIN resp.fields = {}

\* The status the gateway log keeps of an ended call: "rejected" when it was
\* never sent, the exception's name when it raised, "returned" otherwise.
StatusOf(resp) ==
  IF ~resp.sent THEN "rejected"
  ELSE IF resp.kind = "raise" THEN resp.exc ELSE "returned"

\* The id or text an answer carries, whatever its shape ("" when none).
Payload(resp) ==
  IF DOMAIN resp.fields = {} THEN ""
  ELSE resp.fields[CHOOSE k \in DOMAIN resp.fields : TRUE]

\* ensure_assistant, lines 79-86
ExtractAssistantId(assistant) ==
  LET _id == Or(GetAttr(assistant, "id"), GetAttr(assistant, "assistant_id"))
  IN IF ~Truthy(_id) /\ assistant.kind = "dict"
     THEN Or(DictGet(assistant, "id"), DictGet(assistant, "assistant_id"))
     ELSE _id

\* run_stress_test, lines 244-254; NoneVal stands for the RuntimeError.
ExtractMainThreadId(thread) ==
  LET a == Or(GetAttr(thread, "id"), GetAttr(thread, "thread_id"))
      b == IF ~Truthy(a) /\ thread.kind = "dict"
           THEN Or(DictGet(thread, "id"), DictGet(thread, "thread_id"))
           ELSE a
  IN IF ~Truthy(b) /\ thread.kind = "str" THEN thread.fields["value"] ELSE b

\* _run_isolated_critic, lines 282-283
ExtractCriticThreadId(t) ==
  LET t_id == Or(GetAttr(t, "id"), GetAttr(t, "thread_id"))
  IN IF t.kind = "dict" THEN Or(DictGet(t, "id"), DictGet(t, "thread_id"))
     ELSE t_id

\* run_block_async, lines 108-115 (the text is an opaque token; its
\* surrounding whitespace is not modelled)
ExtractText(resp) ==
  LET text == Or(GetAttr(resp, "content"), DictGet(resp, "content"))
      text2 == IF ~Truthy(text)
               THEN Or(GetAttr(resp, "message"), DictGet(resp, "message"))
               ELSE text
  IN IF ~Truthy(text2) THEN "" ELSE text2

----------------------------------------------------------------------------
(* Prompts                                                                 *)

NoCritics == [k \in {} |-> ""]

\* _build_prompts: a prompt is its template's name and the texts injected.
Prompt(template, idea, neutral, assume, critics) ==
  [template |-> template, idea |-> idea, neutral |-> neutral,
   assume |-> assume, critics |-> critics]

IdeaOf(r) == "idea" \o ToString(r)

P_bias_remover(idea) == Prompt("bias_remover", idea, "-", "-", NoCritics)

P_assumptions(neutral) == Prompt("assumptions", "-", neutral, "-", NoCritics)

P_critic(name, neutral) == Prompt(name, "-", neutral, "-", NoCritics)

P_final_judge(neutral, assume, critics) ==
  Prompt("final_judge", "-", neutral, assume, critics)

\* The text the gateway generates for a message: one token per template and
\* context, so that the texts of different submissions differ.
Reply(content, thread_id) == "re_" \o content.template \o "@" \o thread_id

\* Ids the gateway hands out: one per creating call.
AssistantIdFor(r) == "asst" \o ToString(r)

MainThreadIdFor(r) == "main" \o ToString(r)

CriticThreadIdFor(r, i) == "crit" \o ToString(r) \o "_" \o ToString(i)

----------------------------------------------------------------------------
(* The gateway's log                                                       *)

\* The argument a call does not carry.
NotPassed == "-"

\* A gateway call and its arguments.  No call of the service carries an
\* llm_provider: run_block_async receives one (line 91) and hands neither
\* form of add_message (lines 98-105) anything but thread_id, content and
\* model_name.
Call(op, r, i, aid, tid, content, model_name, form) ==
  [op |-> op, run |-> r, task |-> i, assistant_id |-> aid, thread_id |-> tid,
   content |-> content, llm_provider |-> NotPassed, model_name |-> model_name,
   form |-> form]

NoPrompt == Prompt("-", "-", "-", "-", NoCritics)

\* client.create_assistant(name=..., description=...), line 70
CreateAssistantCall(r) ==
  Call("create_assistant", r, 0, "-", "-", NoPrompt, "-", "kw")

\* client.create_thread(assistant_id=assistant_id), lines 242 and 281
CreateThreadCall(r, i, aid) ==
  Call("create_thread", r, i, aid, "-", NoPrompt, "-", "kw")

\* client.add_message(thread_id=, content=, model_name=), lines 98-105: the
\* keyword form first, the positional form after a TypeError.  llm_provider
\* is a parameter of run_block_async that no call hands on.
AddMessageCall(r, i, tid, content, model_name, attempt) ==
  Call("add_message", r, i, "-", tid, content, model_name,
       IF attempt = 1 THEN "kw" ELSE "pos")

\* client.delete_thread(thread_id=t_id_str), line 297
DeleteThreadCall(r, i, tid) ==
  Call("delete_thread", r, i, "-", tid, NoPrompt, "-", "kw")

Entry(c, st, v) == [call |-> c, status |-> st, payload |-> v]

\* The call c is made: it is in flight.
Issued(log, c) == log (+) SetToBag({Entry(c, "inflight", "")})

\* The call c ends with the answer resp.
Ended(log, c, resp) ==
  (log (-) SetToBag({Entry(c, "inflight", "")}))
    (+) SetToBag({Entry(c, StatusOf(resp), Payload(resp))})

----------------------------------------------------------------------------
(* Frames                                                                  *)

NoRisk == [computed |-> FALSE, critics |-> NoCritics, threshold |-> 0]

\* compute_risk_signals(critics) as run_stress_test uses it, line 315: a
\* local computation over the critiques map with the default threshold.
RiskSignals(critics) == [computed |-> TRUE, critics |-> critics, threshold |-> 3]

\* The frame of a run_stress_test invocation that has not been made yet.
IdleRun ==
  [pc |-> "idle", attempt |-> 1, thread_id |-> NoneVal,
   selected_critics |-> NoList, assistant_id |-> NoneVal,
   neutral_idea |-> NoneVal, assumptions_txt |-> NoneVal,
   critics |-> NoCritics, risk_signals |-> NoRisk, verdict |-> NoneVal,
   error |-> "-"]

NoConf == [llm_provider |-> "-", model_name |-> "-"]

\* A critic task slot that holds no task.
NoTask ==
  [pc |-> "none", attempt |-> 1, name |-> "-", prompt |-> NoPrompt,
   model_conf |-> NoConf, t_id_str |-> "-", out |-> NoneVal, exc |-> "-"]

\* The coroutine _run_isolated_critic(critic_prompt, model_conf) of line 307,
\* wrapped in a task by asyncio.gather and not yet run.
NewTask(name, neutral) ==
  [NoTask EXCEPT !.pc = "ready", !.name = name,
                 !.prompt = P_critic(name, neutral), !.model_conf = MODELS[name]]

\* Lines 301-311: one task per entry of selected_critics, in list order.
SpawnCritics(selected, neutral) ==
  [i \in 1..MaxTasks |->
     IF i <= Len(selected) THEN NewTask(selected[i], neutral) ELSE NoTask]

TasksOf(r) == {i \in 1..MaxTasks : task[r][i].pc # "none"}

\* A map that pairs the names with the results in the opposite order.
ZipCritics_misaligned(r) ==
  LET names == {task[r][i].name : i \in TasksOf(r)}
      n_tasks == Cardinality(TasksOf(r))
      last(n) == CHOOSE i \in TasksOf(r) :
                   /\ task[r][i].name = n
                   /\ \A j \in TasksOf(r) : task[r][j].name = n => j <= i
  IN [n \in names |-> task[r][n_tasks + 1 - last(n)].out]

\* Line 312: dict(zip(critic_names, results)); a name listed twice keeps the
\* result of its last task.
ZipCritics(r) ==
  LET names == {task[r][i].name : i \in TasksOf(r)}
      last(n) == CHOOSE i \in TasksOf(r) :
                   /\ task[r][i].name = n
                   /\ \A j \in TasksOf(r) : task[r][j].name = n => j <= i
  IN [n \in names |-> task[r][last(n)].out]

\* What run_block_async does when its add_message call ends: the keyword
\* call's TypeError leads to the positional call, any other exception
\* propagates, an answer is unwrapped.
RunBlock(resp, attempt) ==
  IF resp.kind = "raise"
  THEN IF resp.exc = "TypeError" /\ attempt = 1 THEN "retry" ELSE "raise"
  ELSE "return"

\* The message of the main-line step a run is suspended in.
MainContent(f, r) ==
  CASE f.pc = "neutralize" -> P_bias_remover(IdeaOf(r))
    [] f.pc = "assumptions" -> P_assumptions(f.neutral_idea)
    [] f.pc = "verdict" ->
         P_final_judge(f.neutral_idea, f.assumptions_txt, f.critics)

\* run_block_async(thread_id, content, MODELS["main"][...]) of the main line
MainCall(f, r, attempt) ==
  AddMessageCall(r, 0, f.thread_id, MainContent(f, r),
                 MODELS["main"].model_name, attempt)

\* _run_isolated_critic's run_block_async(t_id_str, prompt, model_conf[...])
CriticCall(t, r, i, attempt) ==
  AddMessageCall(r, i, t.t_id_str, t.prompt, t.model_conf.model_name, attempt)

\* The gateway's answer may be abnormal only within the fault budget.
Allowed(resp) == Abnormal(resp) => faults < MaxFaults

Count(resp) == IF Abnormal(resp) THEN faults + 1 ELSE faults

----------------------------------------------------------------------------
(* The main line of run_stress_test                                        *)

\* No local helper is being called.
NoCalc == [fn |-> "-"]

\* ask_follow_up(thread_id, question) not yet invoked.
IdleAsk ==
  [pc |-> "idle", attempt |-> 1, thread_id |-> NoneVal, out |-> NoneVal,
   exc |-> "-"]

\* new-main.py before its first request: ASSISTANT_ID = None (line 54).
NM_Idle ==
  [ASSISTANT_ID |-> NoneVal, pc |-> "idle", responses |-> <<>>, idea |-> "",
   thread_id |-> NoneVal, neutral_idea |-> NoneVal,
   assumptions_txt |-> NoneVal, critics |-> NoCritics,
   risk_signals |-> NoRisk, verdict |-> NoneVal, log |-> <<>>]

Init ==
  /\ assistant_id = NoneVal
  /\ run = [r \in Runs |-> IdleRun]
  /\ task = [r \in Runs |-> [i \in 1..MaxTasks |-> NoTask]]
  /\ calls = EmptyBag
  /\ warnings = {}
  /\ faults = 0
  /\ offered = [r \in Runs |-> SingleArgs(r)]
  /\ nm = NM_Idle
  /\ ask = [q \in Asks |-> IdleAsk]
  /\ calc = NoCalc

\* The same service with every invocation made, concurrently.
InitConcurrent ==
  /\ assistant_id = NoneVal
  /\ run = [r \in Runs |-> IdleRun]
  /\ task = [r \in Runs |-> [i \in 1..MaxTasks |-> NoTask]]
  /\ calls = EmptyBag
  /\ warnings = {}
  /\ faults = 0
  /\ offered = [r \in Runs |-> ConcurrentArgs(r)]
  /\ nm = NM_Idle
  /\ ask = [q \in Asks |-> IdleAsk]
  /\ calc = NoCalc

\* The service invoked once, with one selection out of all of them (named or
\* not), by a caller that holds no context.  The gateway fails at most once
\* in a run of a named selection and not at all in a run of all five
\* personas (five tasks and a failure make too many interleavings).
InitSelection ==
  /\ assistant_id = NoneVal
  /\ run = [r \in Runs |-> IdleRun]
  /\ task = [r \in Runs |-> [i \in 1..MaxTasks |-> NoTask]]
  /\ calls = EmptyBag
  /\ warnings = {}
  /\ \E sel \in NamedSelections \cup UnnamedSelections :
       /\ offered = [r \in Runs |-> IF r = 1 THEN {Args(NoneVal, sel)} ELSE {}]
       /\ faults = IF sel \in UnnamedSelections THEN MaxFaults ELSE MaxFaults - 1
  /\ nm = NM_Idle
  /\ ask = [q \in Asks |-> IdleAsk]
  /\ calc = NoCalc

\* As WithThread, with neutralize and assumptions submitted together
\* instead of one after the other.
WithThread_unawaited(f, r, tid, log) ==
  LET g == [f EXCEPT !.thread_id = tid, !.pc = "neutralize", !.attempt = 1]
  IN [frame |-> g,
      log |-> Issued(Issued(log, MainCall(g, r, 1)),
                     AddMessageCall(r, 0, tid, P_assumptions(IdeaOf(r)),
                                    MODELS["main"].model_name, 1))]

\* Lines 256-266: the main-line context is known; neutralize is submitted.
WithThread(f, r, tid, log) ==
  LET g == [f EXCEPT !.thread_id = tid, !.pc = "neutralize", !.attempt = 1]
  IN [frame |-> g, log |-> Issued(log, MainCall(g, r, 1))]

\* As WithAssistant, with a main-line context created whether or not the
\* caller gave one.
WithAssistant_newthread(f, r, aid, log) ==
  LET g == [f EXCEPT !.assistant_id = aid,
                     !.selected_critics = SomeList(SelectCritics(f.selected_critics))]
  IN [frame |-> [g EXCEPT !.pc = "mkthread"],
      log |-> Issued(log, CreateThreadCall(r, 0, aid))]

\* Lines 230-256, once ensure_assistant has returned aid: the selection is
\* filtered, and the main-line context is created unless the caller gave one.
WithAssistant(f, r, aid, log) ==
  LET g == [f EXCEPT !.assistant_id = aid,
                     !.selected_critics = SomeList(SelectCritics(f.selected_critics))]
  IN IF ~Truthy(f.thread_id)
     THEN [frame |-> [g EXCEPT !.pc = "mkthread"],
           log |-> Issued(log, CreateThreadCall(r, 0, aid))]
     ELSE WithThread(g, r, Str(f.thread_id), log)

\* ensure_assistant, line 65: the cached identity is used when there is one.
HasAssistant == Truthy(assistant_id)

\* run_stress_test is invoked.  With a cached assistant ensure_assistant
\* returns without suspending; without one create_assistant is awaited.
Start(r) ==
  /\ run[r].pc = "idle"
  /\ \E a \in offered[r] :
       LET f == [run[r] EXCEPT !.thread_id = a.thread_id,
                               !.selected_critics = a.selected_critics]
       IN IF HasAssistant
          THEN LET n == WithAssistant(f, r, Str(assistant_id), calls)
               IN run' = [run EXCEPT ![r] = n.frame] /\ calls' = n.log
          ELSE /\ run' = [run EXCEPT ![r] = [f EXCEPT !.pc = "ensure"]]
               /\ calls' = Issued(calls, CreateAssistantCall(r))
  /\ UNCHANGED <<assistant_id, task, warnings, faults, offered, nm, ask, calc>>

\* As EnsureReturn, with the identity cached before it is checked: an answer
\* without an id leaves str(None) in the cache.
EnsureReturn_caching(r) ==
  /\ run[r].pc = "ensure"
  /\ \E resp \in IdAnswers(AssistantIdFor(r), "assistant_id") :
       /\ Allowed(resp)
       /\ faults' = Count(resp)
       /\ LET f == run[r]
              log == Ended(calls, CreateAssistantCall(r), resp)
              _id == ExtractAssistantId(resp)
          IN IF resp.kind = "raise"
             THEN /\ run' = [run EXCEPT ![r] = [f EXCEPT !.pc = "raised", !.error = resp.exc]]
                  /\ calls' = log
                  /\ UNCHANGED assistant_id
             ELSE IF ~Truthy(_id)
             THEN /\ run' = [run EXCEPT ![r] = [f EXCEPT !.pc = "raised", !.error = "RuntimeError"]]
                  /\ calls' = log
                  /\ assistant_id' = Str(_id)
             ELSE LET n == WithAssistant(f, r, Str(_id), log)
                  IN /\ assistant_id' = Str(_id)
                     /\ run' = [run EXCEPT ![r] = n.frame]
                     /\ calls' = n.log
  /\ UNCHANGED <<task, warnings, offered, nm, ask, calc>>

\* create_assistant ends (lines 70-89), and the run goes on to line 230.
EnsureReturn(r) ==
  /\ run[r].pc = "ensure"
  /\ \E resp \in IdAnswers(AssistantIdFor(r), "assistant_id") :
       /\ Allowed(resp)
       /\ faults' = Count(resp)
       /\ LET f == run[r]
              log == Ended(calls, CreateAssistantCall(r), resp)
              _id == ExtractAssistantId(resp)
          IN IF resp.kind = "raise"
             THEN /\ run' = [run EXCEPT ![r] = [f EXCEPT !.pc = "raised", !.error = resp.exc]]
                  /\ calls' = log
                  /\ UNCHANGED assistant_id
             ELSE IF ~Truthy(_id)
             THEN /\ run' = [run EXCEPT ![r] = [f EXCEPT !.pc = "raised", !.error = "RuntimeError"]]
                  /\ calls' = log
                  /\ UNCHANGED assistant_id
             ELSE LET n == WithAssistant(f, r, Str(_id), log)
                  IN /\ assistant_id' = Str(_id)
                     /\ run' = [run EXCEPT ![r] = n.frame]
                     /\ calls' = n.log
  /\ UNCHANGED <<task, warnings, offered, nm, ask, calc>>

\* The main-line create_thread ends (lines 242-256).
ThreadReturn(r) ==
  /\ run[r].pc = "mkthread"
  /\ \E resp \in IdAnswers(MainThreadIdFor(r), "thread_id") :
       /\ Allowed(resp)
       /\ faults' = Count(resp)
       /\ LET f == run[r]
              log == Ended(calls, CreateThreadCall(r, 0, f.assistant_id), resp)
              thread_id == ExtractMainThreadId(resp)
          IN IF resp.kind = "raise"
             THEN /\ run' = [run EXCEPT ![r] = [f EXCEPT !.pc = "raised", !.error = resp.exc]]
                  /\ calls' = log
             ELSE IF ~Truthy(thread_id)
             THEN /\ run' = [run EXCEPT ![r] = [f EXCEPT !.pc = "raised", !.error = "RuntimeError"]]
                  /\ calls' = log
             ELSE LET n == WithThread(f, r, Str(thread_id), log)
                  IN run' = [run EXCEPT ![r] = n.frame] /\ calls' = n.log
  /\ UNCHANGED <<assistant_id, task, warnings, offered, nm, ask, calc>>

\* A main-line step raised: run_stress_test ends with the exception.
Failed(f, e) == [f EXCEPT !.pc = "raised", !.error = e]

\* Lines 268-274, once neutralize has returned: assumptions is submitted.
WithNeutral(f, r, text, log) ==
  LET g == [f EXCEPT !.neutral_idea = text, !.pc = "assumptions", !.attempt = 1]
  IN [frame |-> g, log |-> Issued(log, MainCall(g, r, 1))]

\* The neutralize submission ends (lines 261-266 with run_block_async).
NeutralizeReturn(r) ==
  /\ run[r].pc = "neutralize"
  /\ \E resp \in TextAnswers(Reply(MainContent(run[r], r), run[r].thread_id)) :
       /\ Allowed(resp)
       /\ faults' = Count(resp)
       /\ LET f == run[r]
              log == Ended(calls, MainCall(f, r, f.attempt), resp)
              todo == RunBlock(resp, f.attempt)
          IN CASE todo = "retry" ->
                    /\ run' = [run EXCEPT ![r] = [f EXCEPT !.attempt = 2]]
                    /\ calls' = Issued(log, MainCall(f, r, 2))
               [] todo = "raise" ->
                    /\ run' = [run EXCEPT ![r] = Failed(f, resp.exc)]
                    /\ calls' = log
               [] todo = "return" ->
                    LET n == WithNeutral(f, r, ExtractText(resp), log)
                    IN run' = [run EXCEPT ![r] = n.frame] /\ calls' = n.log
  /\ UNCHANGED <<assistant_id, task, warnings, offered, nm, ask, calc>>

\* The assumptions submission ends (lines 269-274); lines 301-311 then make
\* one critic task per selected persona and the run awaits their gather.
AssumptionsReturn(r) ==
  /\ run[r].pc = "assumptions"
  /\ \E resp \in TextAnswers(Reply(MainContent(run[r], r), run[r].thread_id)) :
       /\ Allowed(resp)
       /\ faults' = Count(resp)
       /\ LET f == run[r]
              log == Ended(calls, MainCall(f, r, f.attempt), resp)
              todo == RunBlock(resp, f.attempt)
          IN CASE todo = "retry" ->
                    /\ run' = [run EXCEPT ![r] = [f EXCEPT !.attempt = 2]]
                    /\ calls' = Issued(log, MainCall(f, r, 2))
                    /\ UNCHANGED task
               [] todo = "raise" ->
                    /\ run' = [run EXCEPT ![r] = Failed(f, resp.exc)]
                    /\ calls' = log
                    /\ UNCHANGED task
               [] todo = "return" ->
                    /\ run' = [run EXCEPT ![r] =
                                 [f EXCEPT !.assumptions_txt = ExtractText(resp),
                                           !.pc = "gather", !.attempt = 1]]
                    /\ calls' = log
                    /\ task' = [task EXCEPT ![r] =
                                  SpawnCritics(f.selected_critics.list, f.neutral_idea)]
  /\ UNCHANGED <<assistant_id, warnings, offered, nm, ask, calc>>

----------------------------------------------------------------------------
(* _run_isolated_critic                                                    *)

\* The event loop runs the task for the first time: create_thread, line 281.
TaskStart(r, i) ==
  /\ task[r][i].pc = "ready"
  /\ task' = [task EXCEPT ![r][i].pc = "create"]
  /\ calls' = Issued(calls, CreateThreadCall(r, i, run[r].assistant_id))
  /\ UNCHANGED <<assistant_id, run, warnings, faults, offered, nm, ask, calc>>

\* As WithCriticThread, with the critic's message sent to the run's main-line
\* context instead of the context the task created.
WithCriticThread_shared(t, r, i, resp, log) ==
  LET u == [t EXCEPT !.t_id_str = run[r].thread_id,
                     !.pc = "send", !.attempt = 1]
  IN [frame |-> u, log |-> Issued(log, CriticCall(u, r, i, 1))]

\* Lines 282-293, once create_thread has returned: the id is read without a
\* check, made a string, and the critic's message is submitted to it.
WithCriticThread(t, r, i, resp, log) ==
  LET u == [t EXCEPT !.t_id_str = Str(ExtractCriticThreadId(resp)),
                     !.pc = "send", !.attempt = 1]
  IN [frame |-> u, log |-> Issued(log, CriticCall(u, r, i, 1))]

\* The critic's create_thread ends.  An exception leaves the task at once:
\* the try block of line 287 has not been entered.
TaskCreated(r, i) ==
  /\ task[r][i].pc = "create"
  /\ \E resp \in IdAnswers(CriticThreadIdFor(r, i), "thread_id") :
       /\ Allowed(resp)
       /\ faults' = Count(resp)
       /\ LET t == task[r][i]
              log == Ended(calls, CreateThreadCall(r, i, run[r].assistant_id),
                           resp)
          IN IF resp.kind = "raise"
             THEN /\ task' = [task EXCEPT ![r][i] =
                                [t EXCEPT !.pc = "failed", !.exc = resp.exc]]
                  /\ calls' = log
             ELSE LET n == WithCriticThread(t, r, i, resp, log)
                  IN task' = [task EXCEPT ![r][i] = n.frame] /\ calls' = n.log
  /\ UNCHANGED <<assistant_id, run, warnings, offered, nm, ask, calc>>

\* As Cleanup, with the deletion after the submission instead of in a
\* finally block: an exception skips it.
Cleanup_after(t, r, i, log) ==
  IF t.exc # "-"
  THEN [frame |-> [t EXCEPT !.pc = "failed"], log |-> log]
  ELSE [frame |-> [t EXCEPT !.pc = "delete"],
        log |-> Issued(log, DeleteThreadCall(r, i, t.t_id_str))]

\* Lines 294-297: the finally block submits delete_thread.
Cleanup(t, r, i, log) ==
  [frame |-> [t EXCEPT !.pc = "delete"],
   log |-> Issued(log, DeleteThreadCall(r, i, t.t_id_str))]

\* The critic's message submission ends (lines 288-297).
TaskReplied(r, i) ==
  /\ task[r][i].pc = "send"
  /\ \E resp \in TextAnswers(Reply(task[r][i].prompt, task[r][i].t_id_str)) :
       /\ Allowed(resp)
       /\ faults' = Count(resp)
       /\ LET t == task[r][i]
              log == Ended(calls, CriticCall(t, r, i, t.attempt), resp)
              todo == RunBlock(resp, t.attempt)
              n == IF todo = "raise"
                   THEN Cleanup([t EXCEPT !.exc = resp.exc], r, i, log)
                   ELSE Cleanup([t EXCEPT !.out = ExtractText(resp)], r, i, log)
          IN IF todo = "retry"
             THEN /\ task' = [task EXCEPT ![r][i] = [t EXCEPT !.attempt = 2]]
                  /\ calls' = Issued(log, CriticCall(t, r, i, 2))
             ELSE task' = [task EXCEPT ![r][i] = n.frame] /\ calls' = n.log
  /\ UNCHANGED <<assistant_id, run, warnings, offered, nm, ask, calc>>

\* As AfterDelete, with the exception of the submission lost in the cleanup.
AfterDelete_swallow(t, resp) == [t EXCEPT !.pc = "done"]

\* As AfterDelete, with a failed deletion escaping the cleanup.
AfterDelete_escalate(t, resp) ==
  [t EXCEPT !.pc = IF t.exc # "-" \/ resp.kind = "raise" THEN "failed" ELSE "done",
            !.exc = IF t.exc = "-" /\ resp.kind = "raise" THEN resp.exc ELSE t.exc]

\* Lines 296-299 and the end of the task: a failed deletion is printed and
\* swallowed; the task then returns its text or re-raises the exception of
\* the message submission.
AfterDelete(t, resp) ==
  [t EXCEPT !.pc = IF t.exc # "-" THEN "failed" ELSE "done"]

\* The critic's delete_thread ends.
TaskDeleted(r, i) ==
  /\ task[r][i].pc = "delete"
  /\ \E resp \in DeleteAnswers :
       /\ Allowed(resp)
       /\ faults' = Count(resp)
       /\ LET t == task[r][i]
          IN /\ task' = [task EXCEPT ![r][i] = AfterDelete(t, resp)]
             /\ calls' = Ended(calls, DeleteThreadCall(r, i, t.t_id_str), resp)
             /\ warnings' = IF resp.kind = "raise"
                            THEN warnings \cup {<<r, i, t.t_id_str>>}
                            ELSE warnings
  /\ UNCHANGED <<assistant_id, run, offered, nm, ask, calc>>

----------------------------------------------------------------------------
(* The join, the risk signals and the verdict                              *)

\* As GatherDone, with the join over as soon as one task has returned.
GatherDone_first(r) == \E i \in TasksOf(r) : task[r][i].pc = "done"

\* asyncio.gather(*critic_tasks), line 311: its result is ready when every
\* task has returned ...
GatherDone(r) == \A i \in TasksOf(r) : task[r][i].pc = "done"

\* A join that never takes notice of a task's failure.
GatherFailed_unnoticed(r) == FALSE

\* ... and it raises as soon as one task has raised (return_exceptions is
\* left False); the other tasks are not cancelled.
GatherFailed(r) == \E i \in TasksOf(r) : task[r][i].pc = "failed"

\* As WithCritics, with the verdict submitted to the first critic's context
\* instead of the main-line one.
WithCritics_elsewhere(f, r, critics, log) ==
  LET g == [f EXCEPT !.critics = critics, !.risk_signals = RiskSignals(critics),
                     !.thread_id = task[r][1].t_id_str,
                     !.pc = "verdict", !.attempt = 1]
  IN [frame |-> g, log |-> Issued(log, MainCall(g, r, 1))]

\* Lines 312-323: the critiques map, the risk signals, the verdict message.
WithCritics(f, r, critics, log) ==
  LET g == [f EXCEPT !.critics = critics, !.risk_signals = RiskSignals(critics),
                     !.pc = "verdict", !.attempt = 1]
  IN [frame |-> g, log |-> Issued(log, MainCall(g, r, 1))]

\* The event loop runs callbacks in the order they were scheduled: each task's
\* first step was scheduled by line 311 before any task could finish, so the
\* gather's wake-up runs after every task has started.
AllStarted(r) == \A i \in TasksOf(r) : task[r][i].pc # "ready"

\* The gather returns the tasks' results.
GatherReturn(r) ==
  /\ run[r].pc = "gather"
  /\ GatherDone(r)
  /\ LET n == WithCritics(run[r], r, ZipCritics(r), calls)
     IN run' = [run EXCEPT ![r] = n.frame] /\ calls' = n.log
  /\ UNCHANGED <<assistant_id, task, warnings, faults, offered, nm, ask, calc>>

\* The gather raises a task's exception into run_stress_test.
GatherRaise(r) ==
  /\ run[r].pc = "gather"
  /\ AllStarted(r)
  /\ GatherFailed(r)
  /\ \E i \in TasksOf(r) :
       /\ task[r][i].pc = "failed"
       /\ run' = [run EXCEPT ![r] = Failed(run[r], task[r][i].exc)]
  /\ UNCHANGED <<assistant_id, task, calls, warnings, faults, offered, nm, ask, calc>>

\* The verdict submission ends (lines 318-337): the result is returned.
VerdictReturn(r) ==
  /\ run[r].pc = "verdict"
  /\ \E resp \in TextAnswers(Reply(MainContent(run[r], r), run[r].thread_id)) :
       /\ Allowed(resp)
       /\ faults' = Count(resp)
       /\ LET f == run[r]
              log == Ended(calls, MainCall(f, r, f.attempt), resp)
              todo == RunBlock(resp, f.attempt)
          IN CASE todo = "retry" ->
                    /\ run' = [run EXCEPT ![r] = [f EXCEPT !.attempt = 2]]
                    /\ calls' = Issued(log, MainCall(f, r, 2))
               [] todo = "raise" ->
                    /\ run' = [run EXCEPT ![r] = Failed(f, resp.exc)]
                    /\ calls' = log
               [] todo = "return" ->
                    /\ run' = [run EXCEPT ![r] =
                                 [f EXCEPT !.verdict = ExtractText(resp),
                                           !.pc = "returned"]]
                    /\ calls' = log
  /\ UNCHANGED <<assistant_id, task, warnings, offered, nm, ask, calc>>

\* The record run_stress_test returns, lines 325-337.
Result(r) ==
  [thread_id |-> run[r].thread_id, assistant_id |-> run[r].assistant_id,
   input_idea |-> IdeaOf(r), neutral_idea |-> run[r].neutral_idea,
   assumptions |-> run[r].assumptions_txt, critics |-> run[r].critics,
   risk_signals |-> run[r].risk_signals, verdict |-> run[r].verdict]

----------------------------------------------------------------------------

Next ==
  \E r \in Runs :
    \/ Start(r)
    \/ EnsureReturn(r)
    \/ ThreadReturn(r)
    \/ NeutralizeReturn(r)
    \/ AssumptionsReturn(r)
    \/ GatherReturn(r)
    \/ GatherRaise(r)
    \/ VerdictReturn(r)
    \/ \E i \in 1..MaxTasks :
         \/ TaskStart(r, i)
         \/ TaskCreated(r, i)
         \/ TaskReplied(r, i)
         \/ TaskDeleted(r, i)

Spec == Init /\ [][Next]_vars

SpecConcurrent == InitConcurrent /\ [][Next]_vars

SpecSelection == InitSelection /\ [][Next]_vars

\* A step of run_stress_test's own coroutine, and a step of one critic task.
RunStep(r) ==
  \/ Start(r)
  \/ EnsureReturn(r)
  \/ ThreadReturn(r)
  \/ NeutralizeReturn(r)
  \/ AssumptionsReturn(r)
  \/ GatherReturn(r)
  \/ GatherRaise(r)
  \/ VerdictReturn(r)

TaskStep(r, i) ==
  \/ TaskStart(r, i)
  \/ TaskCreated(r, i)
  \/ TaskReplied(r, i)
  \/ TaskDeleted(r, i)

\* Every gateway call ends, by returning or by raising, and the event loop
\* keeps running: a coroutine that can take its next step takes it, and a
\* task goes on after the coroutine that spawned it has raised (gather does
\* not cancel its other tasks).
Fairness ==
  \A r \in Runs :
    /\ WF_vars(RunStep(r))
    /\ \A i \in 1..MaxTasks : WF_vars(TaskStep(r, i))

SpecFair == Init /\ [][Next]_vars /\ Fairness

----------------------------------------------------------------------------
(* new-main.py: the single-file service.  Its gateway client is called     *)
(* synchronously, so a request runs from its arrival to its response       *)
(* without another request in between; a step is one gateway call.         *)

NMRequests == 2   \* POST /stress-test requests served by new-main.py

\* The blocks stress_test submits, in its order (lines 409-443).
NM_Blocks ==
  <<"bias_remover", "assumptions", "vc", "engineer", "ethicist", "user",
    "competitor", "final_judge">>

\* The request bodies: req.idea empty, blank, or an idea.
NM_Ideas == {"", " ", "idea"}

\* (req.idea or "").strip(), line 397
NM_Strip(idea) == IF idea = " " THEN "" ELSE idea

\* The answers to createAssistant and createThread: `camel` and `snake` are
\* the two attribute names the code reads.
NM_IdAnswers(id, camel, snake) ==
  { Obj([k \in {camel} |-> id]), Obj([k \in {snake} |-> id]),
    Obj([k \in {"id"} |-> id]), Dict([k \in {camel} |-> id]),
    Obj(NoFields), Raise("Error") }

\* The answers to addMessage with reply text `txt`.
NM_TextAnswers(txt) ==
  { Obj([k \in {"content"} |-> txt]), Dict([k \in {"content"} |-> txt]),
    Obj([k \in {"message"} |-> txt]), Obj([k \in {"content"} |-> ""]),
    Obj(NoFields), Raise("Error") }

NM_AssistantId == "nm_asst"

NM_ThreadIdFor(n) == "nm_thread" \o ToString(n)

\* except Exception as e: raise HTTPException(status_code=500, ...), line 465
NM_Fail(f, detail) ==
  [f EXCEPT !.pc = "idle",
            !.responses = Append(@, [status |-> 500, detail |-> detail])]

\* The prompt and the model of block k (lines 409-443).
NM_Content(f, k) ==
  IF k = 1 THEN P_bias_remover(f.idea)
  ELSE IF k = 2 THEN P_assumptions(f.neutral_idea)
  ELSE IF k = Len(NM_Blocks)
    THEN P_final_judge(f.neutral_idea, f.assumptions_txt, f.critics)
  ELSE P_critic(NM_Blocks[k], f.neutral_idea)

NM_Conf(k) ==
  IF NM_Blocks[k] \in Range(available_critics) THEN MODELS[NM_Blocks[k]]
  ELSE MODELS["main"]

\* client.addMessage(thread_id, {...}), lines 377-382
NM_AddMessage(f, k) ==
  [thread_id |-> f.thread_id, content |-> NM_Content(f, k),
   llm_provider |-> NM_Conf(k).llm_provider,
   model_name |-> NM_Conf(k).model_name, answer |-> "pending"]

\* Block k is submitted: the frame waits for its answer.
NM_Submit(f, k) ==
  [f EXCEPT !.pc = NM_Blocks[k], !.log = Append(@, NM_AddMessage(f, k))]

\* run_block, lines 384-387: the text read from the answer; NoneVal stands
\* for RuntimeError("Backboard returned no content for this block.").
NM_run_block_text(resp) ==
  LET text == Or(GetAttr(resp, "content"), DictGet(resp, "content"))
  IN IF ~Truthy(text) THEN NoneVal ELSE text

\* The frame once block k has returned `text`.
NM_Store(f, k, text) ==
  IF k = 1 THEN [f EXCEPT !.neutral_idea = text]
  ELSE IF k = 2 THEN [f EXCEPT !.assumptions_txt = text]
  ELSE IF k = Len(NM_Blocks) THEN [f EXCEPT !.verdict = text]
  ELSE [f EXCEPT !.critics = [n \in DOMAIN @ \cup {NM_Blocks[k]} |->
                                IF n = NM_Blocks[k] THEN text ELSE @[n]]]

\* POST /stress-test, lines 396-402: an empty idea is answered 400; else
\* ensure_assistant_id creates the assistant unless ASSISTANT_ID is cached,
\* and the request's thread is created.
NM_stress_test ==
  /\ nm.pc = "idle"
  /\ Len(nm.responses) < NMRequests
  /\ \E body \in NM_Ideas :
       LET f == [NM_Idle EXCEPT !.ASSISTANT_ID = nm.ASSISTANT_ID,
                                !.responses = nm.responses,
                                !.idea = NM_Strip(body)]
       IN nm' = IF f.idea = ""
                THEN [f EXCEPT !.responses =
                                 Append(@, [status |-> 400,
                                            detail |-> "Missing 'idea' in request body."])]
                ELSE IF Truthy(f.ASSISTANT_ID)
                  THEN [f EXCEPT !.pc = "createThread"]
                ELSE [f EXCEPT !.pc = "createAssistant"]
  /\ UNCHANGED <<assistant_id, run, task, calls, warnings, faults, offered, ask, calc>>

\* createAssistant has ended (lines 359-372).
NM_createAssistant ==
  /\ nm.pc = "createAssistant"
  /\ \E assistant \in NM_IdAnswers(NM_AssistantId, "assistantId", "assistant_id") :
       LET id == Or(GetAttr(assistant, "assistantId"),
                    GetAttr(assistant, "assistant_id"))
       IN nm' = IF assistant.kind = "raise" THEN NM_Fail(nm, assistant.exc)
                ELSE IF ~Truthy(id)
                  THEN NM_Fail([nm EXCEPT !.ASSISTANT_ID = id],
                               "Could not read assistantId from Backboard createAssistant response.")
                ELSE [nm EXCEPT !.ASSISTANT_ID = id, !.pc = "createThread"]
  /\ UNCHANGED <<assistant_id, run, task, calls, warnings, faults, offered, ask, calc>>

\* createThread has ended (lines 405-411): the first block is submitted.
NM_createThread ==
  /\ nm.pc = "createThread"
  /\ \E thread \in NM_IdAnswers(NM_ThreadIdFor(Len(nm.responses) + 1), "threadId", "thread_id") :
       LET thread_id == Or(GetAttr(thread, "threadId"),
                           GetAttr(thread, "thread_id"))
       IN nm' = IF thread.kind = "raise" THEN NM_Fail(nm, thread.exc)
                ELSE IF ~Truthy(thread_id)
                  THEN NM_Fail(nm, "Could not read threadId from Backboard createThread response.")
                ELSE NM_Submit([nm EXCEPT !.thread_id = thread_id], 1)
  /\ UNCHANGED <<assistant_id, run, task, calls, warnings, faults, offered, ask, calc>>

\* A block's addMessage has ended (run_block, and lines 413-463): the next
\* block is submitted, or the response is returned after the last one.
NM_run_block ==
  /\ \E k \in 1..Len(NM_Blocks) :
       /\ nm.pc = NM_Blocks[k]
       /\ \E resp \in NM_TextAnswers(Reply(NM_Content(nm, k), nm.thread_id)) :
            LET text == NM_run_block_text(resp)
                ended(a) == [nm EXCEPT !.log[k].answer = a]
                g == NM_Store(ended("text"), k, text)
            IN nm' =
                 IF resp.kind = "raise" THEN NM_Fail(ended("raised"), resp.exc)
                 ELSE IF text = NoneVal
                   THEN NM_Fail(ended("no_text"),
                                "Backboard returned no content for this block.")
                 ELSE IF k = Len(NM_Blocks)
                   THEN [g EXCEPT !.pc = "idle",
                                  !.responses = Append(@, [status |-> 200, detail |-> "-"])]
                 ELSE IF k + 1 = Len(NM_Blocks)
                   THEN NM_Submit([g EXCEPT !.risk_signals = RiskSignals(g.critics)],
                                  k + 1)
                 ELSE NM_Submit(g, k + 1)
  /\ UNCHANGED <<assistant_id, run, task, calls, warnings, faults, offered, ask, calc>>

InitNewMain ==
  /\ assistant_id = NoneVal
  /\ run = [r \in Runs |-> IdleRun]
  /\ task = [r \in Runs |-> [i \in 1..MaxTasks |-> NoTask]]
  /\ calls = EmptyBag
  /\ warnings = {}
  /\ faults = 0
  /\ offered = [r \in Runs |-> {}]
  /\ nm = NM_Idle
  /\ ask = [q \in Asks |-> IdleAsk]
  /\ calc = NoCalc

NextNewMain ==
  \/ NM_stress_test
  \/ NM_createAssistant
  \/ NM_createThread
  \/ NM_run_block

SpecNewMain == InitNewMain /\ [][NextNewMain]_vars

----------------------------------------------------------------------------
(* ask_follow_up                                                           *)

\* The contexts a caller asks about: one it holds from elsewhere, and the
\* one the first run creates.
AskThreads == {"ext", MainThreadIdFor(1)}

\* The question of the q-th invocation, as a message.
P_question(q) == Prompt("question", "question" \o ToString(q), "-", "-", NoCritics)

\* Invocations are numbered after the runs in the gateway's log.
AskId(q) == NumRuns + q

\* run_block_async(thread_id, question, MODELS["main"][...]), lines 344-349
AskCall(a, q, attempt) ==
  AddMessageCall(AskId(q), 0, a.thread_id, P_question(q),
                 MODELS["main"].model_name, attempt)

\* ask_follow_up is invoked (line 339): the question is submitted.
AskStart(q) ==
  /\ ask[q].pc = "idle"
  /\ \E th \in AskThreads :
       LET a == [ask[q] EXCEPT !.pc = "send", !.thread_id = th]
       IN /\ ask' = [ask EXCEPT ![q] = a]
          /\ calls' = Issued(calls, AskCall(a, q, 1))
  /\ UNCHANGED <<assistant_id, run, task, warnings, faults, offered, nm, calc>>

\* The submission ends: run_block_async resubmits, raises or returns the
\* text, and ask_follow_up returns what it returns.
AskReturn(q) ==
  /\ ask[q].pc = "send"
  /\ \E resp \in TextAnswers(Reply(P_question(q), ask[q].thread_id)) :
       /\ Allowed(resp)
       /\ faults' = Count(resp)
       /\ LET a == ask[q]
              log == Ended(calls, AskCall(a, q, a.attempt), resp)
              todo == RunBlock(resp, a.attempt)
          IN CASE todo = "retry" ->
                    /\ ask' = [ask EXCEPT ![q] = [a EXCEPT !.attempt = 2]]
                    /\ calls' = Issued(log, AskCall(a, q, 2))
               [] todo = "raise" ->
                    /\ ask' = [ask EXCEPT ![q] = [a EXCEPT !.pc = "raised",
                                                           !.exc = resp.exc]]
                    /\ calls' = log
               [] todo = "return" ->
                    /\ ask' = [ask EXCEPT ![q] = [a EXCEPT !.pc = "returned",
                                                           !.out = ExtractText(resp)]]
                    /\ calls' = log
  /\ UNCHANGED <<assistant_id, run, task, warnings, offered, nm, calc>>

\* A service that runs one stress test of one persona and answers follow-up
\* questions meanwhile.
InitFollowUp ==
  /\ assistant_id = NoneVal
  /\ run = [r \in Runs |-> IdleRun]
  /\ task = [r \in Runs |-> [i \in 1..MaxTasks |-> NoTask]]
  /\ calls = EmptyBag
  /\ warnings = {}
  /\ faults = MaxFaults - 1
  /\ offered = [r \in Runs |->
                  IF r = 1 THEN {Args(NoneVal, SomeList(<<"vc">>))} ELSE {}]
  /\ nm = NM_Idle
  /\ ask = [q \in Asks |-> IdleAsk]
  /\ calc = NoCalc

NextFollowUp ==
  \/ Next
  \/ \E q \in Asks : AskStart(q) \/ AskReturn(q)

SpecFollowUp == InitFollowUp /\ [][NextFollowUp]_vars

----------------------------------------------------------------------------
(* normalize_text                                                          *)

MaxTextLen == 4   \* characters of a text given to normalize_text

\* A str is the sequence of its characters.
UpperCase ==
  <<"A", "B", "C", "D", "E", "F", "G", "H", "I", "J", "K", "L", "M",
    "N", "O", "P", "Q", "R", "S", "T", "U", "V", "W", "X", "Y", "Z">>

LowerCase ==
  <<"a", "b", "c", "d", "e", "f", "g", "h", "i", "j", "k", "l", "m",
    "n", "o", "p", "q", "r", "s", "t", "u", "v", "w", "x", "y", "z">>

Digits == {"0", "1", "2", "3", "4", "5", "6", "7", "8", "9"}

\* What \s matches, among the characters of the model.
Whitespace == {" ", "\t", "\n"}

\* str.lower(), character by character: ASCII letters, and one letter
\* outside ASCII.
LowerChar(c) ==
  IF c \in Range(UpperCase)
  THEN LowerCase[CHOOSE k \in 1..Len(UpperCase) : UpperCase[k] = c]
  ELSE IF c = "É" THEN "é" ELSE c

MapChars(s, F(_)) == [k \in 1..Len(s) |-> F(s[k])]

\* re.sub(r"[^a-z0-9\s]", " ", s), line 121
BlankChar(c) ==
  IF c \in Range(LowerCase) \cup Digits \cup Whitespace THEN c ELSE " "

\* re.sub(r"\s+", " ", s), line 122: every run of whitespace becomes one
\* space.
CollapseSpaces(s) ==
  LET F[k \in 0..Len(s)] ==
        IF k = 0 THEN <<>>
        ELSE IF s[k] \notin Whitespace THEN Append(F[k-1], s[k])
        ELSE IF k > 1 /\ s[k-1] \in Whitespace THEN F[k-1]
        ELSE Append(F[k-1], " ")
  IN F[Len(s)]

\* str.strip(), line 122
Strip(s) ==
  LET keep == {k \in 1..Len(s) : s[k] \notin Whitespace}
  IN IF keep = {} THEN <<>>
     ELSE SubSeq(s, CHOOSE k \in keep : \A j \in keep : k <= j,
                    CHOOSE k \in keep : \A j \in keep : j <= k)

\* As normalize_text, without the strip() that ends line 122.
normalize_text_unstripped(s) ==
  LET s0 == IF s.none THEN <<>> ELSE s.list
  IN CollapseSpaces(MapChars(MapChars(s0, LowerChar), BlankChar))

\* normalize_text, lines 119-123.  The argument is an Optional[str], None
\* (NoList) or a str (SomeList of its characters): `s or ""` reads None as "".
normalize_text(s) ==
  LET s0 == IF s.none THEN <<>> ELSE s.list
      s1 == MapChars(s0, LowerChar)
      s2 == MapChars(s1, BlankChar)
  IN Strip(CollapseSpaces(s2))

\* The characters the texts of the model are written with: a lowercase and
\* an uppercase letter, a digit, a space, a tab, a punctuation mark and a
\* letter outside ASCII.
TextChars == {"a", "B", "7", " ", "\t", "!", "É"}

TextInputs == {NoList} \cup {SomeList(s) : s \in SeqsUpTo(TextChars, MaxTextLen)}

\* normalize_text(s) is called ...
NormalizeText ==
  /\ calc.fn = "normalize_text"
  /\ calc.pc = "call"
  /\ calc' = [calc EXCEPT !.pc = "again", !.out = normalize_text(calc.s)]
  /\ UNCHANGED <<assistant_id, run, task, calls, warnings, faults, offered,
                 nm, ask>>

\* ... and called once more on what it returned.
NormalizeAgain ==
  /\ calc.fn = "normalize_text"
  /\ calc.pc = "again"
  /\ calc' = [calc EXCEPT !.pc = "done", !.again = normalize_text(SomeList(calc.out))]
  /\ UNCHANGED <<assistant_id, run, task, calls, warnings, faults, offered,
                 nm, ask>>

InitText ==
  /\ assistant_id = NoneVal
  /\ run = [r \in Runs |-> IdleRun]
  /\ task = [r \in Runs |-> [i \in 1..MaxTasks |-> NoTask]]
  /\ calls = EmptyBag
  /\ warnings = {}
  /\ faults = 0
  /\ offered = [r \in Runs |-> {}]
  /\ nm = NM_Idle
  /\ ask = [q \in Asks |-> IdleAsk]
  /\ \E s \in TextInputs :
       calc = [fn |-> "normalize_text", pc |-> "call", s |-> s,
               out |-> <<>>, again |-> <<>>]

NextText == NormalizeText \/ NormalizeAgain

SpecText == InitText /\ [][NextText]_vars

----------------------------------------------------------------------------
(* text_hits_theme and compute_risk_signals                                *)

MaxThreshold == 3   \* the largest threshold given to compute_risk_signals

\* The themes of lines 137-173, in their order.  A pattern is the sequence of
\* its characters; the one compiled pattern, r"go to market", has no special
\* character, so that its search is the search of a substring too.
Patterns_distribution_adoption ==
  {<<"d", "i", "s", "t", "r", "i", "b", "u", "t", "i", "o", "n">>,
   <<"a", "c", "q", "u", "i", "s", "i", "t", "i", "o", "n">>,
   <<"m", "a", "r", "k", "e", "t", "i", "n", "g">>,
   <<"o", "n", "b", "o", "a", "r", "d", "i", "n", "g">>,
   <<"a", "d", "o", "p", "t", "i", "o", "n">>,
   <<"r", "e", "t", "e", "n", "t", "i", "o", "n">>,
   <<"g", "r", "o", "w", "t", "h">>,
   <<"g", "o", " ", "t", "o", " ", "m", "a", "r", "k", "e", "t">>}

Patterns_trust_credibility ==
  {<<"t", "r", "u", "s", "t">>,
   <<"c", "r", "e", "d", "i", "b", "l", "e">>,
   <<"a", "c", "c", "u", "r", "a", "c", "y">>,
   <<"h", "a", "l", "l", "u", "c", "i", "n", "a", "t", "i", "o", "n">>,
   <<"r", "e", "l", "i", "a", "b", "i", "l", "i", "t", "y">>,
   <<"c", "o", "n", "f", "i", "d", "e", "n", "c", "e">>,
   <<"w", "r", "o", "n", "g">>,
   <<"f", "a", "l", "s", "e">>,
   <<"m", "i", "s", "l", "e", "a", "d", "i", "n", "g">>}

Patterns_privacy_compliance ==
  {<<"p", "r", "i", "v", "a", "c", "y">>,
   <<"p", "i", "i">>,
   <<"g", "d", "p", "r">>,
   <<"h", "i", "p", "a", "a">>,
   <<"c", "o", "n", "s", "e", "n", "t">>,
   <<"c", "o", "m", "p", "l", "i", "a", "n", "c", "e">>,
   <<"d", "a", "t", "a", " ", "l", "e", "a", "k">>,
   <<"b", "r", "e", "a", "c", "h">>,
   <<"s", "e", "n", "s", "i", "t", "i", "v", "e">>}

Patterns_security_abuse ==
  {<<"s", "e", "c", "u", "r", "i", "t", "y">>,
   <<"a", "b", "u", "s", "e">>,
   <<"m", "i", "s", "u", "s", "e">>,
   <<"f", "r", "a", "u", "d">>,
   <<"s", "p", "a", "m">>,
   <<"s", "c", "a", "m">>,
   <<"a", "t", "t", "a", "c", "k">>,
   <<"p", "r", "o", "m", "p", "t", " ", "i", "n", "j", "e", "c", "t", "i", "o", "n">>,
   <<"j", "a", "i", "l", "b", "r", "e", "a", "k">>}

Patterns_moat_competition ==
  {<<"m", "o", "a", "t">>,
   <<"d", "e", "f", "e", "n", "s", "i", "b", "l", "e">>,
   <<"d", "i", "f", "f", "e", "r", "e", "n", "t", "i", "a", "t", "i", "o", "n">>,
   <<"c", "o", "m", "m", "o", "d", "i", "t", "y">>,
   <<"c", "o", "p", "y">>,
   <<"c", "l", "o", "n", "e">>,
   <<"c", "o", "m", "p", "e", "t", "i", "t", "i", "o", "n">>,
   <<"i", "n", "c", "u", "m", "b", "e", "n", "t">>}

Patterns_scalability_cost ==
  {<<"s", "c", "a", "l", "e">>,
   <<"s", "c", "a", "l", "a", "b", "i", "l", "i", "t", "y">>,
   <<"l", "a", "t", "e", "n", "c", "y">>,
   <<"c", "o", "s", "t">>,
   <<"t", "o", "k", "e", "n">>,
   <<"i", "n", "f", "e", "r", "e", "n", "c", "e">>,
   <<"t", "h", "r", "o", "u", "g", "h", "p", "u", "t">>,
   <<"r", "a", "t", "e", " ", "l", "i", "m", "i", "t">>}

Patterns_product_scope ==
  {<<"s", "c", "o", "p", "e">>,
   <<"t", "o", "o", " ", "b", "r", "o", "a", "d">>,
   <<"v", "a", "g", "u", "e">>,
   <<"u", "n", "c", "l", "e", "a", "r">>,
   <<"w", "h", "o", " ", "i", "s", " ", "t", "h", "i", "s", " ", "f", "o", "r">>,
   <<"n", "o", "t", " ", "s", "p", "e", "c", "i", "f", "i", "c">>,
   <<"u", "n", "d", "e", "f", "i", "n", "e", "d">>}

themes ==
  <<[key |-> "distribution_adoption", label |-> "Distribution / adoption friction",
     patterns |-> Patterns_distribution_adoption],
    [key |-> "trust_credibility", label |-> "Trust / credibility",
     patterns |-> Patterns_trust_credibility],
    [key |-> "privacy_compliance", label |-> "Privacy / compliance risk",
     patterns |-> Patterns_privacy_compliance],
    [key |-> "security_abuse", label |-> "Security / misuse / abuse",
     patterns |-> Patterns_security_abuse],
    [key |-> "moat_competition", label |-> "Weak moat / competition will copy",
     patterns |-> Patterns_moat_competition],
    [key |-> "scalability_cost", label |-> "Scalability / cost",
     patterns |-> Patterns_scalability_cost],
    [key |-> "product_scope", label |-> "Too broad / unclear scope",
     patterns |-> Patterns_product_scope]>>

\* The critiques the model hands to compute_risk_signals: an empty one, one
\* that holds the word privacy after a capitalised word and before a
\* punctuation mark, and one that names two themes, the second through the
\* compiled pattern.
Critique_empty == <<>>

Critique_privacy ==
  <<"D", "a", "t", "a", " ", "p", "r", "i", "v", "a", "c", "y", "!">>

Critique_moat ==
  <<"N", "o", " ", "m", "o", "a", "t", ";", " ",
    "g", "o", "-", "t", "o", "-", "m", "a", "r", "k", "e", "t", "?">>

RiskTexts == {Critique_empty, Critique_privacy, Critique_moat}



\* `p in t` and p.search(t): p occurs in t as a substring.
Contains(t, p) ==
  \E k \in 0..(Len(t) - Len(p)) : SubSeq(t, k + 1, k + Len(p)) = p

\* A match in the text as it was written, not normalized.
text_hits_theme_raw(text, patterns) ==
  LET t == IF text.none THEN <<>> ELSE text.list
  IN \E p \in patterns : Contains(t, p)

\* A match of the whole text: the normalized text is one of the patterns.
text_hits_theme_whole(text, patterns) ==
  normalize_text(text) \in patterns

\* text_hits_theme, lines 125-134.
text_hits_theme(text, patterns) ==
  LET t == normalize_text(text)
  IN \E p \in patterns : Contains(t, p)

\* text_hits_theme(txt, th["patterns"]) for the critiques and the themes of
\* the model, computed once and read by the loop of lines 178-182.
HitTable ==
  [txt \in RiskTexts |->
     [k \in 1..Len(themes) |-> text_hits_theme(SomeList(txt), themes[k].patterns)]]

\* critics.items(): the pairs of the map in its iteration order.
Items(critics) == [k \in 1..Len(critics) |-> critics[k]]

\* theme_counts after the loop of lines 178-182, by the theme's position.
theme_counts(critics) ==
  [k \in 1..Len(themes) |->
     Cardinality({i \in 1..Len(critics) : HitTable[Items(critics)[i].txt][k]})]

\* A tally that puts each new persona at the front of the list.
mentions_newest_first(critics) ==
  [k \in 1..Len(themes) |->
     LET RECURSIVE Upto(_)
         Upto(i) ==
           IF i = 0 THEN <<>>
           ELSE IF HitTable[Items(critics)[i].txt][k]
                THEN <<Items(critics)[i].persona>> \o Upto(i - 1)
                ELSE Upto(i - 1)
     IN Upto(Len(critics))]

\* mentions after the loop: the personas whose critique hit the theme, in
\* the order the loop met them.
mentions(critics) ==
  [k \in 1..Len(themes) |->
     LET RECURSIVE Upto(_)
         Upto(i) ==
           IF i = 0 THEN <<>>
           ELSE IF HitTable[Items(critics)[i].txt][k]
                THEN Append(Upto(i - 1), Items(critics)[i].persona)
                ELSE Upto(i - 1)
     IN Upto(Len(critics))]

\* The list comprehension of line 185: one entry per theme, in themes' order.
ThemeEntries(critics) ==
  LET counts == theme_counts(critics)
      named == mentions(critics)
  IN [k \in 1..Len(themes) |->
        [key |-> themes[k].key, label |-> themes[k].label,
         count |-> counts[k], personas |-> named[k]]]

\* An ordering that puts an entry BEFORE the entries of the same count.
RECURSIVE InsertBeforeTies(_, _)
InsertBeforeTies(x, s) ==
  IF s = <<>> THEN <<x>>
  ELSE IF Head(s).count > x.count
       THEN <<Head(s)>> \o InsertBeforeTies(x, Tail(s))
       ELSE <<x>> \o s

RECURSIVE sorted_ties_reversed(_)
sorted_ties_reversed(s) ==
  IF s = <<>> THEN <<>>
  ELSE InsertBeforeTies(s[Len(s)], sorted_ties_reversed(SubSeq(s, 1, Len(s) - 1)))

\* sorted(..., key=count, reverse=True), lines 184-188: Python's sort is
\* stable, and with reverse=True it keeps the entries of equal key in their
\* original order.  An entry goes after every entry whose count is not less.
RECURSIVE InsertByCount(_, _)
InsertByCount(x, s) ==
  IF s = <<>> THEN <<x>>
  ELSE IF Head(s).count >= x.count
       THEN <<Head(s)>> \o InsertByCount(x, Tail(s))
       ELSE <<x>> \o s

RECURSIVE sorted_by_count_reverse(_)
sorted_by_count_reverse(s) ==
  IF s = <<>> THEN <<>>
  ELSE InsertByCount(s[Len(s)], sorted_by_count_reverse(SubSeq(s, 1, Len(s) - 1)))

ranked(critics) == sorted_by_count_reverse(ThemeEntries(critics))

\* A filter that leaves out a count equal to the threshold.
high_conf_above(r, threshold) ==
  SeqFilter(r, {x \in Range(r) : x.count > threshold})

\* A filter that returns the themes it keeps from the last of the list to
\* the first.
high_conf_backwards(r, threshold) ==
  LET kept == SeqFilter(r, {x \in Range(r) : x.count >= threshold})
  IN [k \in 1..Len(kept) |-> kept[Len(kept) + 1 - k]]

\* high_conf, line 190, from the ranked list r.
high_conf(r, threshold) ==
  SeqFilter(r, {x \in Range(r) : x.count >= threshold})

\* The number of personas the note of line 192 writes after the slash.
NotePersonas == 5

\* A note that names the default threshold whatever threshold was given.
confidence_note_default(h, threshold) ==
  IF h # <<>>
  THEN [kind |-> "High confidence risk", label |-> h[1].label,
        count |-> h[1].count, personas |-> NotePersonas]
  ELSE [kind |-> "No high-confidence convergence", threshold |-> 3]

\* confidence_note, lines 191-195, from the list h of high_conf: the
\* sentence, as the values it is formatted from.
confidence_note(h, threshold) ==
  IF h # <<>>
  THEN [kind |-> "High confidence risk", label |-> h[1].label,
        count |-> h[1].count, personas |-> NotePersonas]
  ELSE [kind |-> "No high-confidence convergence", threshold |-> threshold]

\* s[:n]
Slice(s, n) == SubSeq(s, 1, IF Len(s) < n THEN Len(s) ELSE n)

\* compute_risk_signals, lines 136-203.
compute_risk_signals(critics, threshold) ==
  LET counts == theme_counts(critics)
      r == ranked(critics)
      h == high_conf(r, threshold)
  IN [topThemes |-> Slice(r, 3),
      highConfidenceRisks |-> h,
      themeCounts |-> [key \in {themes[k].key : k \in 1..Len(themes)} |->
                         counts[CHOOSE k \in 1..Len(themes) : themes[k].key = key]],
      threshold |-> threshold,
      confidenceNote |-> confidence_note(h, threshold)]

\* The maps the model hands to compute_risk_signals: a critique for each
\* persona of a subset of the personas, kept as the sequence of its items in
\* iteration order (the order of insertion, which run_stress_test's zip makes
\* the order of the personas).
CriticsMaps ==
  UNION {
    LET keys == SeqFilter(available_critics, S)
    IN {[k \in 1..Len(keys) |-> [persona |-> keys[k], txt |-> f[keys[k]]]] :
          f \in [S -> RiskTexts]} :
    S \in SUBSET Range(available_critics)}

Thresholds == 0..MaxThreshold

\* The same map in another iteration order.
Reorderings(critics) ==
  LET n == Len(critics)
  IN {[k \in 1..n |-> critics[p[k]]] :
        p \in {q \in [1..n -> 1..n] : \A i, j \in 1..n : q[i] = q[j] => i = j}}

NoSignals == [computed |-> FALSE]

\* compute_risk_signals(critics, threshold) is called ...
ComputeRiskSignals ==
  /\ calc.fn = "compute_risk_signals"
  /\ calc.pc = "call"
  /\ calc' = [calc EXCEPT !.pc = "reorder",
                          !.out = compute_risk_signals(calc.critics, calc.threshold)]
  /\ UNCHANGED <<assistant_id, run, task, calls, warnings, faults, offered,
                 nm, ask>>

\* A second call whose tallies start from those the first call left behind,
\* as they would if theme_counts and mentions outlived the call.
ComputeReordered_carrying ==
  /\ calc.fn = "compute_risk_signals"
  /\ calc.pc = "reorder"
  /\ \E c \in Reorderings(calc.critics) :
       calc' = [calc EXCEPT !.pc = "done", !.order = c,
                            !.again = compute_risk_signals(calc.critics \o c,
                                                           calc.threshold)]
  /\ UNCHANGED <<assistant_id, run, task, calls, warnings, faults, offered,
                 nm, ask>>

\* ... and called once more on the same map built in another order.
ComputeReordered ==
  /\ calc.fn = "compute_risk_signals"
  /\ calc.pc = "reorder"
  /\ \E c \in Reorderings(calc.critics) :
       calc' = [calc EXCEPT !.pc = "done", !.order = c,
                            !.again = compute_risk_signals(c, calc.threshold)]
  /\ UNCHANGED <<assistant_id, run, task, calls, warnings, faults, offered,
                 nm, ask>>

InitRisk ==
  /\ assistant_id = NoneVal
  /\ run = [r \in Runs |-> IdleRun]
  /\ task = [r \in Runs |-> [i \in 1..MaxTasks |-> NoTask]]
  /\ calls = EmptyBag
  /\ warnings = {}
  /\ faults = 0
  /\ offered = [r \in Runs |-> {}]
  /\ nm = NM_Idle
  /\ ask = [q \in Asks |-> IdleAsk]
  /\ \E c \in CriticsMaps, threshold \in Thresholds :
       calc = [fn |-> "compute_risk_signals", pc |-> "call", critics |-> c,
               threshold |-> threshold, out |-> NoSignals, order |-> <<>>,
               again |-> NoSignals]

NextRisk == ComputeRiskSignals \/ ComputeReordered

SpecRisk == InitRisk /\ [][NextRisk]_vars

----------------------------------------------------------------------------
(* text_hits_theme on texts that differ in case and punctuation            *)

MaxHitLen == 4   \* characters of the texts tried in every spelling

\* The characters of the short texts: the letters of the pattern "pii" in
\* both cases, a punctuation mark and a space.
HitChars == {"p", "i", "P", "I", "!", " "}

Text_go_to_market ==
  <<"G", "o", "-", "T", "o", "-", "M", "a", "r", "k", "e", "t", "!">>

Text_gotomarket == <<"g", "o", "t", "o", "m", "a", "r", "k", "e", "t">>

Text_rate_limit == <<"R", "a", "t", "e", ".", "L", "i", "m", "i", "t">>

Text_data_leak == <<"d", "a", "t", "a", "-", "l", "e", "a", "k", " ", "?">>

\* The texts given to text_hits_theme: every text of up to MaxHitLen
\* characters, and four longer ones around patterns of two and three words.
HitTexts ==
  SeqsUpTo(HitChars, MaxHitLen)
    \cup {Text_go_to_market, Text_gotomarket, Text_rate_limit, Text_data_leak}

\* str.upper() on a lowercase ASCII letter.
UpperChar(c) ==
  IF c \in Range(LowerCase)
  THEN UpperCase[CHOOSE k \in 1..Len(LowerCase) : LowerCase[k] = c]
  ELSE c

\* The character c written another way: a letter in the other case, a
\* punctuation mark as a space.
Respell(c) ==
  IF c \in Range(LowerCase) THEN UpperChar(c)
  ELSE IF c \in Range(UpperCase) THEN LowerChar(c)
  ELSE IF c \in Digits \cup Whitespace THEN c
  ELSE " "

\* The text with the characters at the positions S written another way.
Vary(text, S) ==
  [k \in 1..Len(text) |-> IF k \in S THEN Respell(text[k]) ELSE text[k]]

\* The sets of positions tried: all of them for a short text; none, one or
\* every position for a longer one.
PositionSets(n) ==
  IF n <= MaxHitLen THEN SUBSET (1..n)
  ELSE {{}, 1..n} \cup {{k} : k \in 1..n}

\* text_hits_theme(text, th["patterns"]) for each theme th, as the loop of
\* lines 179-180 calls it.
HitsOf(text) ==
  [k \in 1..Len(themes) |-> text_hits_theme(SomeList(text), themes[k].patterns)]

NoHits == <<>>

\* text_hits_theme is called on a text for every theme ...
TextHitsTheme ==
  /\ calc.fn = "text_hits_theme"
  /\ calc.pc = "call"
  /\ calc' = [calc EXCEPT !.pc = "vary", !.hits = HitsOf(calc.text)]
  /\ UNCHANGED <<assistant_id, run, task, calls, warnings, faults, offered,
                 nm, ask>>

\* ... and on the same text written in another case or with spaces for
\* punctuation.
TextHitsVariant ==
  /\ calc.fn = "text_hits_theme"
  /\ calc.pc = "vary"
  /\ \E S \in PositionSets(Len(calc.text)) :
       LET v == Vary(calc.text, S)
       IN calc' = [calc EXCEPT !.pc = "done", !.variant = v,
                               !.hits_variant = HitsOf(v)]
  /\ UNCHANGED <<assistant_id, run, task, calls, warnings, faults, offered,
                 nm, ask>>

InitHits ==
  /\ assistant_id = NoneVal
  /\ run = [r \in Runs |-> IdleRun]
  /\ task = [r \in Runs |-> [i \in 1..MaxTasks |-> NoTask]]
  /\ calls = EmptyBag
  /\ warnings = {}
  /\ faults = 0
  /\ offered = [r \in Runs |-> {}]
  /\ nm = NM_Idle
  /\ ask = [q \in Asks |-> IdleAsk]
  /\ \E text \in HitTexts :
       calc = [fn |-> "text_hits_theme", pc |-> "call", text |-> text,
               hits |-> NoHits, variant |-> <<>>, hits_variant |-> NoHits]

NextHits == TextHitsTheme \/ TextHitsVariant

SpecHits == InitHits /\ [][NextHits]_vars

----------------------------------------------------------------------------
(* Reading the gateway's log                                               *)

Log == BagToSet(calls)

\* How many times the calls of the set S were made.
Times(S) == BagCardinality([e \in S |-> calls[e]])

CallsBy(r, i, op) ==
  {e \in Log : e.call.run = r /\ e.call.task = i /\ e.call.op = op}

\* The main-line submissions of run r for the template t.
Messages(r, t) ==
  {e \in CallsBy(r, 0, "add_message") : e.call.content.template = t}

InFlight(e) == e.status = "inflight"

Raised(e) == e.status \in {"Error", "TypeError", "rejected"}

\* A submission whose exception run_block_async lets out: any exception of
\* the positional call, and of the keyword call any but a TypeError.
FinalFailure(e) ==
  /\ e.call.op = "add_message"
  /\ Raised(e)
  /\ (e.call.form = "pos" \/ e.status = "Error")

\* The step of template t has been submitted and its submission has returned.
Completed(r, t) ==
  /\ \E m \in Messages(r, t) : m.status = "returned"
  /\ \A m \in Messages(r, t) : ~InFlight(m)

\* The message submission of critic task i of run r has failed.
FailedSubmission(r, i) == \E e \in CallsBy(r, i, "add_message") : FinalFailure(e)

DeleteAttempts(r, i) == Times(CallsBy(r, i, "delete_thread"))

\* The text the gateway returned to critic task i of run r.
ReturnedText(r, i) ==
  LET S == {e \in CallsBy(r, i, "add_message") : e.status = "returned"}
  IN IF S = {} THEN NoneVal ELSE (CHOOSE e \in S : TRUE).payload

----------------------------------------------------------------------------
(* Claims                                                                  *)

\* C1: the assumptions message is submitted only after the neutralize
\* submission has returned, and no critic call (context creation, message,
\* deletion) is made before the assumptions submission has returned.
C1_MainLineOrder ==
  \A e \in Log :
    /\ (e.call.op = "add_message" /\ e.call.task = 0
          /\ e.call.content.template = "assumptions")
         => Completed(e.call.run, "bias_remover")
    /\ e.call.task # 0 => Completed(e.call.run, "assumptions")

C1_Witness ==
  \E e \in Log : e.call.task # 0 /\ e.call.op = "create_thread"

\* C2: risk signals are computed and the verdict is submitted only when every
\* selected persona's task has finished, its deletion attempt included.
C2_FanInBarrier ==
  \A r \in Runs :
    (run[r].risk_signals.computed \/ Messages(r, "final_judge") # {})
      => /\ TasksOf(r) = 1..Len(run[r].selected_critics.list)
         /\ \A i \in TasksOf(r) :
              /\ task[r][i].pc = "done"
              /\ \E e \in CallsBy(r, i, "delete_thread") : ~InFlight(e)
              /\ \A e \in Log : (e.call.run = r /\ e.call.task = i) => ~InFlight(e)

C2_Witness ==
  \E r \in Runs :
    Messages(r, "final_judge") # {} /\ Cardinality(TasksOf(r)) >= 2

\* C3: once run_stress_test has left the fan-out, by going on to the verdict
\* or by raising, no critic task of the run is still in flight.
C3_NoTaskInFlightAfterJoin ==
  \A r \in Runs :
    (run[r].pc \in {"verdict", "returned", "raised"} /\ TasksOf(r) # {})
      => \A i \in TasksOf(r) : task[r][i].pc \in {"done", "failed"}

\* C4: a critic task attempts delete_thread at most once, and exactly once,
\* on its own context, as soon as its message submission has failed.
C4_CleanupOnFailure ==
  \A r \in Runs : \A i \in TasksOf(r) :
    /\ DeleteAttempts(r, i) <= 1
    /\ FailedSubmission(r, i)
         => /\ DeleteAttempts(r, i) = 1
            /\ \A e \in CallsBy(r, i, "delete_thread") :
                 e.call.thread_id = task[r][i].t_id_str

C4_Witness ==
  \E r \in Runs : \E i \in TasksOf(r) :
    /\ FailedSubmission(r, i)
    /\ task[r][i].t_id_str = CriticThreadIdFor(r, i)
    /\ task[r][i].pc = "failed"
    /\ DeleteAttempts(r, i) = 1

\* C5: create_assistant is called at most once on the service instance,
\* however the invocations of run_stress_test interleave.
C5_CreateAssistantOnce ==
  Times({e \in Log : e.call.op = "create_assistant"}) <= 1

\* C6: when a critic's message submission has failed, the run computes no
\* risk signals, submits no verdict and returns no result.
C6_CriticFailureFailsRun ==
  \A r \in Runs :
    (\E i \in TasksOf(r) : FailedSubmission(r, i))
      => /\ ~run[r].risk_signals.computed
         /\ Messages(r, "final_judge") = {}
         /\ run[r].pc \notin {"verdict", "returned"}

C6_Witness ==
  \E r \in Runs :
    /\ run[r].pc = "raised"
    /\ \E i \in TasksOf(r) : FailedSubmission(r, i)
    /\ \E j \in TasksOf(r) : task[r][j].pc = "done"

\* The templates of the main line, in pipeline order.
StageOf(t) ==
  CASE t = "bias_remover" -> 1 [] t = "assumptions" -> 2
    [] t = "final_judge" -> 4 [] OTHER -> 3

\* C7: when a neutralize, assumptions or verdict submission has failed, the
\* run has ended in failure, no later step has made a gateway call, and the
\* failed message has been sent to the gateway once only.
C7_NoResubmission ==
  \A r \in Runs : \A e \in CallsBy(r, 0, "add_message") :
    FinalFailure(e)
      => /\ run[r].pc = "raised"
         /\ \A x \in Log :
              (x.call.run = r /\ x.call.op = "add_message")
                => StageOf(x.call.content.template) <= StageOf(e.call.content.template)
         /\ TasksOf(r) # {} => e.call.content.template = "final_judge"
         /\ Times({x \in Messages(r, e.call.content.template) :
                     x.status # "rejected"}) <= 1

\* C8: a failed delete_thread changes nothing: the task still returns the
\* text of its submission, the join still completes, and the critiques of
\* the result are the texts the gateway returned.
C8_DeleteFailureHarmless ==
  \A r \in Runs :
    /\ \A i \in TasksOf(r) :
         (\E e \in CallsBy(r, i, "delete_thread") : Raised(e))
           => /\ task[r][i].pc = "done" <=> ~FailedSubmission(r, i)
              /\ task[r][i].pc = "done"
                   => task[r][i].out = ExtractText(Obj([k \in {"content"} |-> ReturnedText(r, i)]))
    /\ (run[r].pc = "gather"
          /\ \A i \in TasksOf(r) :
               /\ ~FailedSubmission(r, i)
               /\ \E e \in CallsBy(r, i, "delete_thread") : ~InFlight(e))
         => ENABLED GatherReturn(r)
    /\ run[r].pc = "returned"
         => \A i \in TasksOf(r) :
              (\A j \in TasksOf(r) : task[r][j].name = task[r][i].name => j <= i)
                => Result(r).critics[task[r][i].name] =
                     ExtractText(Obj([k \in {"content"} |-> ReturnedText(r, i)]))

C8_Witness ==
  \E r \in Runs :
    /\ run[r].pc = "returned"
    /\ \E w \in warnings : w[1] = r

\* C9: no message is submitted to, and no deletion issued on, the
\* placeholder context id, and a run whose create_assistant or create_thread
\* answer carried no id has failed with the extraction error.
C9_NoPlaceholderContext ==
  /\ \A e \in Log :
       e.call.op \in {"add_message", "delete_thread"} => e.call.thread_id # "None"
  /\ \A e \in Log :
       (e.call.op \in {"create_assistant", "create_thread"}
          /\ e.status = "returned" /\ e.payload = "")
         => run[e.call.run].pc = "raised" /\ run[e.call.run].error = "RuntimeError"

\* C10: at every step of the single-file service (neutralize, assumptions,
\* each critic, verdict), an answer with no extractable text is not an
\* error: the request is not answered 500 because of it.
C10_NoTextIsNotAnError ==
  \A k \in DOMAIN nm.log :
    nm.log[k].answer = "no_text" =>
      ~(nm.pc = "idle" /\ nm.responses[Len(nm.responses)].status = 500)

\* The tasks (run, task index; 0 is the main line) that submitted a message
\* to the context c or issued its deletion.
Accessors(c) ==
  {<<e.call.run, e.call.task>> :
     e \in {x \in Log : x.call.op \in {"add_message", "delete_thread"}
                          /\ x.call.thread_id = c}}

\* The tasks whose create_thread call was answered with the context c.
Creators(c) ==
  {<<e.call.run, e.call.task>> :
     e \in {x \in Log : x.call.op = "create_thread"
                          /\ x.status = "returned" /\ x.payload = c}}

\* The contexts operated on, the placeholder of an unread id (C9) left out.
Contexts ==
  {e.call.thread_id :
     e \in {x \in Log : x.call.op \in {"add_message", "delete_thread"}}}
    \ {"None"}

TasksFor(r, n) == {i \in TasksOf(r) : task[r][i].name = n}

\* The calls `op` made by the tasks of run r that run the persona n; of a
\* message, the keyword submission only (the positional one repeats it).
PersonaCalls(r, n, op) ==
  {e \in Log : /\ e.call.run = r
               /\ e.call.task \in TasksFor(r, n)
               /\ e.call.op = op
               /\ e.call.form = "kw"}

\* C12: whatever the selection list, a persona that runs has one context
\* created and one message submitted for it, never more, and a returned run
\* holds exactly one of each and one critique under the persona's name.
C12_OncePerPersona ==
  \A r \in Runs : \A n \in Range(available_critics) :
    /\ Times(PersonaCalls(r, n, "create_thread")) <= 1
    /\ Times(PersonaCalls(r, n, "add_message")) <= 1
    /\ (run[r].pc = "returned" /\ TasksFor(r, n) # {})
         => /\ Times(PersonaCalls(r, n, "create_thread")) = 1
            /\ Times(PersonaCalls(r, n, "add_message")) = 1
            /\ n \in DOMAIN Result(r).critics

\* The selection run r was invoked with (one is offered per run under
\* SpecSelection).
SelectionOf(r) == (CHOOSE a \in offered[r] : TRUE).selected_critics

\* The personas the claim C13 says run for a selection.
PersonasToRun(sel) ==
  IF sel.none \/ sel.list = <<>> THEN available_critics
  ELSE IF Range(sel.list) \cap Range(available_critics) # {}
    THEN SeqFilter(sel.list, Range(available_critics))
  ELSE available_critics

\* The critic calls `op` of run r, as the set of (task, template or "-").
CriticOps(r, op) ==
  {<<e.call.task, e.call.content.template>> :
     e \in {x \in Log : x.call.run = r /\ x.call.task # 0 /\ x.call.op = op}}

\* C13: the personas that run are all five for no selection or an empty
\* one, the valid names of a selection that has some, and all five for a
\* selection of invalid names only; in that last case the contexts created,
\* the messages and the critique keys are those of a run with no selection.
C13_PersonasThatRun ==
  \A r \in Runs :
    (offered[r] # {} /\ run[r].pc \in {"gather", "verdict", "returned"})
      => LET names == PersonasToRun(SelectionOf(r))
         IN /\ TasksOf(r) = 1..Len(names)
            /\ \A i \in TasksOf(r) : task[r][i].name = names[i]
            /\ names = PersonasToRun(NoList) <=>
                 SelectionOf(r) \in UnnamedSelections
            /\ CriticOps(r, "create_thread") \subseteq
                 {<<i, "-">> : i \in 1..Len(names)}
            /\ CriticOps(r, "add_message") \subseteq
                 {<<i, names[i]>> : i \in 1..Len(names)}
            /\ run[r].pc = "returned"
                 => /\ DOMAIN Result(r).critics = Range(names)
                    /\ CriticOps(r, "create_thread") =
                         {<<i, "-">> : i \in 1..Len(names)}
                    /\ CriticOps(r, "add_message") =
                         {<<i, names[i]>> : i \in 1..Len(names)}

C13_Witness ==
  \E r \in Runs :
    /\ offered[r] # {}
    /\ run[r].pc = "returned"
    /\ SelectionOf(r) = SomeList(<<"nobody">>)
    /\ DOMAIN Result(r).critics = Range(available_critics)

\* The MODELS key of a message submission: the persona of the critic task
\* that made it, "main" for the main line.
ModelKey(e) ==
  IF e.call.task = 0 THEN "main" ELSE task[e.call.run][e.call.task].name

\* C14: every message submission hands the gateway the provider and the
\* model name configured for its persona, or for "main" on the main line.
C14_ProviderAndModelHandedOn ==
  \A e \in Log :
    e.call.op = "add_message"
      => /\ e.call.model_name = MODELS[ModelKey(e)].model_name
         /\ e.call.llm_provider = MODELS[ModelKey(e)].llm_provider

\* The contexts the main line of run r submitted messages to.
MainContexts(r) == {e.call.thread_id : e \in CallsBy(r, 0, "add_message")}

\* C15: the neutralize, assumptions and verdict messages of a run go to one
\* context id, the result returns that id, and the run never issues
\* delete_thread on it.
C15_OneMainContext ==
  \A r \in Runs :
    /\ Cardinality(MainContexts(r)) <= 1
    /\ \A e \in Log :
         (e.call.run = r /\ e.call.op = "delete_thread")
           => e.call.thread_id \notin MainContexts(r)
    /\ run[r].pc = "returned"
         => /\ MainContexts(r) = {Result(r).thread_id}
            /\ \A t \in {"bias_remover", "assumptions", "final_judge"} :
                 \E m \in Messages(r, t) :
                   m.status = "returned" /\ m.call.thread_id = Result(r).thread_id

C15_Witness ==
  \E r \in Runs :
    /\ run[r].pc = "returned"
    /\ Result(r).thread_id = MainThreadIdFor(r)
    /\ \E i \in TasksOf(r) : DeleteAttempts(r, i) = 1

\* The gateway calls `ops` made by the q-th ask_follow_up invocation, those
\* that Python rejected before they were sent left out.
AskCalls(q, ops) ==
  {e \in Log : /\ e.call.run = AskId(q)
               /\ e.call.op \in ops
               /\ e.status # "rejected"}

\* C16: ask_follow_up submits exactly one message, to the context it was
\* given, creates and deletes no context, and leaves the cached assistant
\* identity as the runs made it.
C16_FollowUpFrame ==
  /\ \A q \in Asks :
       /\ Times(AskCalls(q, {"add_message"})) <= 1
       /\ ask[q].pc \in {"returned", "raised"}
            => Times(AskCalls(q, {"add_message"})) = 1
       /\ \A e \in AskCalls(q, {"add_message"}) :
            e.call.thread_id = ask[q].thread_id
       /\ AskCalls(q, {"create_assistant", "create_thread", "delete_thread"}) = {}
  /\ (assistant_id # NoneVal)
       => \E e \in Log : /\ e.call.op = "create_assistant"
                         /\ e.call.run \in Runs
                         /\ e.status = "returned"
                         /\ e.payload = assistant_id

\* The characters normalize_text may return.
NormalChars == Range(LowerCase) \cup Digits \cup {" "}

\* A text of letters a-z, digits and single spaces, none at either end.
Normalized(t) ==
  /\ Range(t) \subseteq NormalChars
  /\ t # <<>> => t[1] # " " /\ t[Len(t)] # " "
  /\ \A k \in 1..Len(t) - 1 : ~(t[k] = " " /\ t[k+1] = " ")

\* C17: normalize_text(s) holds only a-z, 0-9 and single spaces, with no
\* space at either end, and normalizing it again returns it unchanged.
C17_NormalizeIdempotent ==
  /\ calc.pc \in {"again", "done"} => Normalized(calc.out)
  /\ calc.pc = "done" => calc.again = calc.out

C17_Witness ==
  /\ calc.pc = "done"
  /\ calc.s = SomeList(<<"B", "!", "\t", "É">>)
  /\ calc.out = <<"b">>
  /\ calc.again = <<"b">>

\* The keys of a list of theme entries, in the list's order.
Keys(entries) == [k \in 1..Len(entries) |-> entries[k].key]

\* The place of a theme in the definition of the themes.
PlaceOf(key) == CHOOSE k \in 1..Len(themes) : themes[k].key = key

\* The list r holds every theme once, by count descending and, at equal
\* counts, in the order of the themes' definition.
CountDescThenDefinition(r) ==
  /\ Len(r) = Len(themes)
  /\ Range(Keys(r)) = {themes[k].key : k \in 1..Len(themes)}
  /\ \A i \in 1..(Len(r) - 1) :
       \/ r[i].count > r[i + 1].count
       \/ r[i].count = r[i + 1].count /\ PlaceOf(r[i].key) < PlaceOf(r[i + 1].key)

\* C18: for every critiques map, compute_risk_signals ranks the seven themes
\* by count descending with ties in the order of the themes' definition; the
\* order of the themes is the same whatever the iteration order of the map;
\* and topThemes is exactly the first three entries of the ranking, three
\* entries also when every count is 0 or the map is empty.
C18_RankingAndTopThemes ==
  (calc.fn = "compute_risk_signals" /\ calc.pc \in {"reorder", "done"}) =>
    LET r == ranked(calc.critics)
        counts == theme_counts(calc.critics)
    IN /\ Len(r) = 7
       /\ \A i \in 1..Len(r) : r[i].count = counts[PlaceOf(r[i].key)]
       /\ CountDescThenDefinition(r)
       /\ Len(calc.out.topThemes) = 3
       /\ calc.out.topThemes = SubSeq(r, 1, 3)
       /\ calc.pc = "done" =>
            /\ Keys(ranked(calc.order)) = Keys(r)
            /\ Keys(calc.again.topThemes) = Keys(calc.out.topThemes)

\* Two themes, the first and the fifth of the definition, were hit by the same
\* two personas or more, a third theme by one persona, and the map was
\* ranked again in another iteration order.
C18_Witness ==
  /\ calc.fn = "compute_risk_signals"
  /\ calc.pc = "done"
  /\ calc.order # calc.critics
  /\ calc.out.themeCounts["distribution_adoption"] >= 2
  /\ calc.out.themeCounts["moat_competition"]
       = calc.out.themeCounts["distribution_adoption"]
  /\ calc.out.themeCounts["privacy_compliance"] = 1
  /\ Keys(calc.out.topThemes)
       = <<"distribution_adoption", "moat_competition", "privacy_compliance">>

\* C19: for every critiques map and every threshold, a theme is in
\* highConfidenceRisks if and only if its count is at least the threshold; a
\* count equal to the threshold is in, a count one below it is out.
C19_HighConfidenceIffAtThreshold ==
  (calc.fn = "compute_risk_signals" /\ calc.pc \in {"reorder", "done"}) =>
    \A k \in 1..Len(themes) :
      (themes[k].key \in Range(Keys(calc.out.highConfidenceRisks)))
        <=> (calc.out.themeCounts[themes[k].key] >= calc.threshold)

\* With the threshold at 2, one theme was hit by exactly two personas and is
\* in the list, another was hit by exactly one and is not.
C19_Witness ==
  /\ calc.fn = "compute_risk_signals"
  /\ calc.pc = "reorder"
  /\ calc.threshold = 2
  /\ calc.out.themeCounts["privacy_compliance"] = calc.threshold
  /\ calc.out.themeCounts["moat_competition"] = calc.threshold - 1
  /\ Keys(calc.out.highConfidenceRisks) = <<"privacy_compliance">>

\* C20: when highConfidenceRisks is not empty, the confidence note names the
\* first theme of the list and states its count out of the number of personas
\* that were run, k when the map holds the critiques of k personas, for every
\* k from 1 to 5.
C20_NoteCountsPersonasRun ==
  (/\ calc.fn = "compute_risk_signals"
   /\ calc.pc \in {"reorder", "done"}
   /\ Len(calc.critics) \in 1..5
   /\ calc.out.highConfidenceRisks # <<>>) =>
    /\ calc.out.confidenceNote.kind = "High confidence risk"
    /\ calc.out.confidenceNote.label = calc.out.highConfidenceRisks[1].label
    /\ calc.out.confidenceNote.count = calc.out.highConfidenceRisks[1].count
    /\ calc.out.confidenceNote.personas = Len(calc.critics)

\* The word the scenario of C21 looks for in the critiques.
Word_privacy == <<"p", "r", "i", "v", "a", "c", "y">>

\* The personas of the map whose critique holds the word as it is written.
PersonasNaming(critics, word) ==
  {critics[i].persona : i \in {j \in 1..Len(critics) : Contains(critics[j].txt, word)}}

\* No critique of the map hits a theme other than the theme at place k.
HitsOnly(critics, k) ==
  \A i \in 1..Len(critics) : \A j \in 1..Len(themes) :
    j # k => ~text_hits_theme(SomeList(critics[i].txt), themes[j].patterns)

\* Five personas, three of them with "privacy" in their critique, no critique
\* with a pattern of another theme, and the threshold at 3.
ThreeOfFiveOnPrivacy ==
  /\ calc.fn = "compute_risk_signals"
  /\ calc.pc \in {"reorder", "done"}
  /\ Len(calc.critics) = 5
  /\ calc.threshold = 3
  /\ Cardinality(PersonasNaming(calc.critics, Word_privacy)) = 3
  /\ HitsOnly(calc.critics, PlaceOf("privacy_compliance"))

\* C21: with five personas of which exactly three have "privacy" in their
\* text and none has a pattern of another theme, privacy_compliance counts 3,
\* every other theme counts 0, privacy_compliance is the first entry of
\* topThemes and of highConfidenceRisks at threshold 3, and the note names it
\* with 3 out of 5.
C21_ThreeOfFiveScenario ==
  ThreeOfFiveOnPrivacy =>
    /\ \A k \in 1..Len(themes) :
         calc.out.themeCounts[themes[k].key]
           = IF themes[k].key = "privacy_compliance" THEN 3 ELSE 0
    /\ calc.out.topThemes[1].key = "privacy_compliance"
    /\ calc.out.highConfidenceRisks # <<>>
    /\ calc.out.highConfidenceRisks[1].key = "privacy_compliance"
    /\ calc.out.confidenceNote
         = [kind |-> "High confidence risk", label |-> "Privacy / compliance risk",
            count |-> 3, personas |-> 5]

C21_Witness ==
  /\ ThreeOfFiveOnPrivacy
  /\ calc.pc = "reorder"
  /\ calc.critics[1].txt = Critique_privacy
  /\ calc.critics[2].txt = Critique_empty

\* The five personas, each mapped to the empty string.
AllFiveEmpty ==
  /\ calc.fn = "compute_risk_signals"
  /\ calc.pc \in {"reorder", "done"}
  /\ Len(calc.critics) = 5
  /\ \A i \in 1..Len(calc.critics) : calc.critics[i].txt = <<>>

\* Every count is 0, no theme is a high-confidence risk and the note is the
\* sentence of no convergence with the threshold that was given.
NoConvergence ==
  /\ \A k \in 1..Len(themes) : calc.out.themeCounts[themes[k].key] = 0
  /\ calc.out.highConfidenceRisks = <<>>
  /\ calc.out.confidenceNote
       = [kind |-> "No high-confidence convergence", threshold |-> calc.threshold]

\* C22, as stated: with all five personas mapped to empty strings, every theme
\* count is 0, highConfidenceRisks is empty and the note is the no-convergence
\* sentence naming the configured threshold, whatever that threshold is.
C22_EmptyCritiques_AnyThreshold ==
  AllFiveEmpty => NoConvergence

\* C22, amended: the same, for a configured threshold of at least 1.
C22_EmptyCritiques ==
  (AllFiveEmpty /\ calc.threshold >= 1) => NoConvergence

C22_Witness ==
  /\ AllFiveEmpty
  /\ calc.pc = "reorder"
  /\ calc.threshold = 1
  /\ calc.out.confidenceNote.threshold = 1

CreatedUnder ==
  {e.call.assistant_id : e \in {x \in Log : x.call.op = "create_thread"}}

\* C24: once the assistant identity is cached on the service it is never
\* replaced by another value, so that under every interleaving of concurrent
\* runs the contexts of the process are all created under one assistant id,
\* the cached one.
C24_OneAssistantIdentity ==
  /\ Cardinality(CreatedUnder) <= 1
  /\ \A a \in CreatedUnder : Truthy(assistant_id) /\ a = Str(assistant_id)

\* The submissions of critic task i of run r that reached the gateway: every
\* add_message but the keyword calls the client refused before sending.
Submissions(r, i) ==
  {e \in CallsBy(r, i, "add_message") : e.status # "rejected"}

\* Critic task i of run r has created its context and read its id.
HasContext(r, i) ==
  /\ \E e \in CallsBy(r, i, "create_thread") :
       e.status = "returned" /\ e.payload = CriticThreadIdFor(r, i)
  /\ task[r][i].t_id_str = CriticThreadIdFor(r, i)

\* C25: a per-critic context receives exactly one message submission in its
\* lifetime, after its creation and before its deletion attempt, and no
\* operation is issued on it after the deletion attempt.
C25_ContextUsedOnce ==
  \A r \in Runs : \A i \in TasksOf(r) :
    HasContext(r, i) =>
      /\ Times(Submissions(r, i)) <= 1
      /\ \A e \in CallsBy(r, i, "add_message") \cup CallsBy(r, i, "delete_thread") :
           e.call.thread_id = CriticThreadIdFor(r, i)
      /\ DeleteAttempts(r, i) <= 1
      /\ DeleteAttempts(r, i) = 1 =>
           /\ CallsBy(r, i, "add_message") # {}
           /\ \A e \in CallsBy(r, i, "add_message") : ~InFlight(e)

\* The positions of the map whose critique hits the theme at place k.
HittingItems(critics, k) ==
  {i \in 1..Len(critics) : HitTable[critics[i].txt][k]}

\* The sequence s holds the personas of the items I of the map, once each, in
\* the map's iteration order.
InIterationOrder(s, critics, I) ==
  /\ Len(s) = Cardinality(I)
  /\ Range(s) = {critics[i].persona : i \in I}
  /\ \A a, b \in 1..Len(s) :
       a < b => \E i, j \in I : i < j /\ critics[i].persona = s[a]
                                       /\ critics[j].persona = s[b]

\* The tally of the entries x made for the map critics.
TallyOf(entries, critics) ==
  \A n \in 1..Len(entries) :
    LET x == entries[n]
        I == HittingItems(critics, PlaceOf(x.key))
    IN /\ x.count = Cardinality({critics[i].persona : i \in I})
       /\ x.count = Len(x.personas)
       /\ x.count <= Len(critics)
       /\ InIterationOrder(x.personas, critics, I)

\* C26: for every critiques map and every theme, the count is the number of
\* distinct personas whose text hits the theme, is the length of the theme's
\* personas list and is at most the number of entries of the map; the list
\* holds those personas once each in the iteration order of the map.
C26_TallyPerTheme ==
  (calc.fn = "compute_risk_signals" /\ calc.pc \in {"reorder", "done"}) =>
    /\ TallyOf(ranked(calc.critics), calc.critics)
    /\ TallyOf(calc.out.topThemes, calc.critics)
    /\ TallyOf(calc.out.highConfidenceRisks, calc.critics)
    /\ calc.pc = "done" => TallyOf(calc.again.topThemes, calc.order)

\* A theme was hit by three personas of a map of five that were not the first
\* three, and the map was tallied again in another order.
C26_Witness ==
  /\ calc.fn = "compute_risk_signals"
  /\ calc.pc = "done"
  /\ Len(calc.critics) = 5
  /\ calc.order # calc.critics
  /\ calc.out.topThemes[1].personas = <<"vc", "ethicist", "competitor">>
  /\ calc.again.topThemes[1].personas = <<"competitor", "vc", "ethicist">>

\* p occurs in t: at some offset the characters of t are those of p.
OccursIn(p, t) ==
  \E off \in 0..(Len(t) - Len(p)) : \A j \in 1..Len(p) : t[off + j] = p[j]

\* C27: a text hits a theme if and only if one of the theme's patterns
\* occurs as a contiguous substring (for the compiled pattern: matches
\* somewhere) in the normalized text; so a text that differs from another
\* only in the case of its letters, or in having spaces where the other has
\* punctuation, hits exactly the same themes.
C27_HitsIffPatternInNormalizedText ==
  (calc.fn = "text_hits_theme" /\ calc.pc \in {"vary", "done"}) =>
    /\ LET t == normalize_text(SomeList(calc.text))
       IN \A k \in 1..Len(themes) :
            calc.hits[k] <=> \E p \in themes[k].patterns : OccursIn(p, t)
    /\ calc.pc = "done" => calc.hits_variant = calc.hits

\* A text in capitals with a punctuation mark hit the privacy theme, and so
\* did its spelling in lowercase with a space.
C27_Witness ==
  /\ calc.fn = "text_hits_theme"
  /\ calc.pc = "done"
  /\ calc.text = <<"P", "I", "I", "!">>
  /\ calc.variant = <<"p", "i", "i", " ">>
  /\ calc.hits[PlaceOf("privacy_compliance")]
  /\ calc.hits_variant[PlaceOf("privacy_compliance")]

\* The submissions of run r's critic tasks that carried persona p's prompt
\* and returned.
ReturnedFor(r, p) ==
  {e \in Log : /\ e.call.run = r
               /\ e.call.task \in TasksOf(r)
               /\ e.call.op = "add_message"
               /\ e.call.content = P_critic(p, run[r].neutral_idea)
               /\ e.status = "returned"}

\* C28: the critique recorded under persona p in the critiques map is the
\* text returned by the submission that carried p's prompt, in whatever order
\* the concurrent critic tasks completed.
C28_CritiqueBelongsToPersona ==
  \A r \in Runs :
    run[r].pc \in {"verdict", "returned"} =>
      \A p \in DOMAIN run[r].critics :
        \E e \in ReturnedFor(r, p) :
          run[r].critics[p] = ExtractText(Obj([k \in {"content"} |-> e.payload]))

\* A run recorded the critiques of two personas, each a text of its own.
C28_Witness ==
  \E r \in Runs :
    /\ run[r].pc = "returned"
    /\ DOMAIN run[r].critics = {"vc", "engineer"}
    /\ run[r].critics["vc"] = Reply(P_critic("vc", run[r].neutral_idea),
                                      CriticThreadIdFor(r, 1))
    /\ run[r].critics["engineer"] = Reply(P_critic("engineer", run[r].neutral_idea),
                                            CriticThreadIdFor(r, 2))

\* The gateway has created a context for critic task i of run r.
ContextCreated(r, i) ==
  \E e \in CallsBy(r, i, "create_thread") :
    e.status = "returned" /\ e.payload = CriticThreadIdFor(r, i)

\* A delete_thread has been issued on the context of critic task i of run r.
DeleteIssuedOn(r, i) ==
  \E e \in Log : /\ e.call.op = "delete_thread"
                 /\ e.call.thread_id = CriticThreadIdFor(r, i)

\* C29: when every gateway call ends and the event loop keeps running, every
\* per-critic context that was created is eventually the target of a
\* delete_thread attempt, also after a sibling's failure has made
\* run_stress_test fail.
C29_CreatedContextEventuallyDeleted ==
  \A r \in Runs : \A i \in 1..MaxTasks :
    ContextCreated(r, i) ~> DeleteIssuedOn(r, i)

\* Run r's create_assistant has ended and ensure_assistant returned no id to
\* the run: the call raised, or its answer held no id that lines 79-86 read.
EnsureFailed(r) ==
  /\ \E e \in CallsBy(r, 0, "create_assistant") : ~InFlight(e)
  /\ ~Truthy(run[r].assistant_id)

\* The runs whose create_assistant returned an id that was read.
Ensured ==
  {r \in Runs : /\ \E e \in CallsBy(r, 0, "create_assistant") : e.status = "returned"
                /\ run[r].assistant_id = AssistantIdFor(r)}

\* C30: when create_assistant fails or its answer yields no id,
\* ensure_assistant raises and leaves the cached identity unset, the run
\* creates no context and submits no message, and the next run calls
\* create_assistant again: a run goes without a create_assistant of its own
\* only on an identity that another run's create_assistant returned.
C30_FailedEnsureLeavesNoIdentity ==
  /\ \A r \in Runs :
       EnsureFailed(r) =>
         /\ run[r].pc = "raised"
         /\ \A e \in Log : e.call.run = r => e.call.op = "create_assistant"
  /\ Ensured = {} => assistant_id = NoneVal
  /\ Truthy(assistant_id) => \E r \in Ensured : assistant_id = AssistantIdFor(r)
  /\ \A r \in Runs :
       (run[r].pc # "idle" /\ CallsBy(r, 0, "create_assistant") = {})
         => \E q \in Ensured \ {r} : run[r].assistant_id = AssistantIdFor(q)

\* The first run's create_assistant has failed, and the run after it has
\* called create_assistant itself and gone on with the id it returned.
C30_Witness ==
  /\ EnsureFailed(1)
  /\ run[1].pc = "raised"
  /\ 2 \in Ensured
  /\ assistant_id = AssistantIdFor(2)
  /\ \E e \in CallsBy(2, 0, "create_thread") : TRUE

\* The personas run by run r: the names under which its critiques are kept.
PersonasRun(r) == DOMAIN run[r].critics

\* How many times run r, main line and critic tasks together, called op.
TimesCalled(r, op) == Times({e \in Log : e.call.run = r /\ e.call.op = op})

\* C31: a successful run with k personas run has issued exactly k
\* delete_thread attempts and, when no thread_id was supplied, exactly k + 1
\* create_thread calls (k when one was supplied); and a critic whose
\* create_thread call fails submits no message and attempts no deletion.
C31_ContextsPerRun ==
  \A r \in Runs :
    /\ run[r].pc = "returned" =>
         LET k == Cardinality(PersonasRun(r))
         IN /\ TimesCalled(r, "delete_thread") = k
            /\ TimesCalled(r, "create_thread")
                 = IF run[r].thread_id = "ext" THEN k ELSE k + 1
    /\ \A i \in TasksOf(r) :
         (\E e \in CallsBy(r, i, "create_thread") : Raised(e))
           => /\ CallsBy(r, i, "add_message") = {}
              /\ CallsBy(r, i, "delete_thread") = {}

\* The caller supplied a context to run r, and the run has taken it.
Supplied(r) == run[r].thread_id = "ext" /\ run[r].pc # "idle"

\* C32: when the caller supplies a thread_id, no main-line context is
\* created, the neutralize, assumptions and verdict messages are submitted to
\* the supplied context, the returned thread_id is the supplied one, and each
\* critic still creates a context of its own and works on none that is the
\* supplied one.
C32_SuppliedContext ==
  \A r \in Runs :
    Supplied(r) =>
      /\ CallsBy(r, 0, "create_thread") = {}
      /\ \A e \in CallsBy(r, 0, "add_message") : e.call.thread_id = "ext"
      /\ run[r].pc = "returned" =>
           /\ Result(r).thread_id = "ext"
           /\ \A t \in {"bias_remover", "assumptions", "final_judge"} :
                \E m \in Messages(r, t) : m.status = "returned"
      /\ \A i \in TasksOf(r) :
           /\ \A e \in CallsBy(r, i, "add_message") \cup CallsBy(r, i, "delete_thread") :
                /\ e.call.thread_id # "ext"
                /\ \E c \in CallsBy(r, i, "create_thread") : c.status = "returned"
           /\ \A c \in CallsBy(r, i, "create_thread") :
                c.status = "returned" => c.payload # "ext"

\* A run that was given a context has returned with two critiques.
C32_Witness ==
  \E r \in Runs :
    /\ Supplied(r)
    /\ run[r].pc = "returned"
    /\ Cardinality(TasksOf(r)) = 2
    /\ \A i \in TasksOf(r) : task[r][i].t_id_str = CriticThreadIdFor(r, i)

\* C33: for every critiques map and threshold, highConfidenceRisks is a
\* prefix of the full ranking of the themes; when it is not empty its first
\* entry is topThemes[0], and no theme has a greater count.
C33_HighConfidenceIsPrefix ==
  (calc.fn = "compute_risk_signals" /\ calc.pc \in {"reorder", "done"}) =>
    LET r == ranked(calc.critics)
        h == calc.out.highConfidenceRisks
    IN /\ Len(h) <= Len(r)
       /\ h = SubSeq(r, 1, Len(h))
       /\ h # <<>> =>
            /\ h[1] = calc.out.topThemes[1]
            /\ \A k \in 1..Len(themes) :
                 calc.out.themeCounts[themes[k].key] <= h[1].count

\* Three themes reached the threshold of 2, the first with more mentions than
\* the two others, and the four other themes stayed below it.
C33_Witness ==
  /\ calc.fn = "compute_risk_signals"
  /\ calc.pc = "reorder"
  /\ calc.threshold = 2
  /\ Keys(calc.out.highConfidenceRisks)
       = <<"privacy_compliance", "distribution_adoption", "moat_competition">>
  /\ calc.out.highConfidenceRisks[1].count = 3
  /\ calc.out.highConfidenceRisks[2].count = 2
  /\ Len(calc.critics) = 5

\* run_stress_test has been invoked for run r / has ended for run r.
Invoked(r) == run[r].pc # "idle"

HasEnded(r) == run[r].pc \in {"returned", "raised"}

\* C34: when every gateway call eventually returns or fails and the scheduler
\* is weakly fair to the coroutines, every run_stress_test invocation
\* eventually ends, by returning a result or by failing.
C34_EveryRunEnds ==
  \A r \in Runs : Invoked(r) ~> HasEnded(r)

\* A run with two critic tasks has ended by failing after one task's
\* submission failed, and its other task has finished too.
C34_Witness ==
  \E r \in Runs :
    /\ run[r].pc = "raised"
    /\ Cardinality(TasksOf(r)) = 2
    /\ \E i \in TasksOf(r) : FailedSubmission(r, i)
    /\ \A i \in TasksOf(r) : task[r][i].pc \in {"done", "failed"}

====
